---------------------------- MODULE Spec2Model ----------------------------
(***************************************************************************)
(* Matching & Scoring Engine of the spec test suite (src/tests/utils.py). *)
(*                                                                         *)
(* Strings are sequences of one-character strings.  A Python float is      *)
(* modelled by the exact rational it stands for, a record                  *)
(* [num |-> n, den |-> d] in lowest terms with d > 0.                      *)
(*                                                                         *)
(* The pure functions are checked under specifications whose initial       *)
(* states draw a call (the function's arguments) from bounded sets and     *)
(* whose single action applies the function.  compare_chunks is a state    *)
(* machine of its own: one step per predicted chunk.                       *)
(***************************************************************************)
EXTENDS Integers, Sequences, FiniteSets, TLC

VARIABLES
    call,                \* arguments of the pure function being called
    ret,                 \* <<>> while the call is pending, <<value>> after
    pc,                  \* position of the running operation
    predicted,           \* compare_chunks: argument predicted
    gold_standard,       \* compare_chunks: argument gold_standard
    iou_threshold,       \* compare_chunks: argument iou_threshold
    use_fuzzy_matching,  \* compare_chunks: argument use_fuzzy_matching
    unmatched_gold,      \* compare_chunks: local pool of unmatched gold chunks
    match_details,       \* compare_chunks: local list of recorded pairings
    idx,                 \* compare_chunks: predicted chunks processed so far
    failed_on            \* compare_chunks: <<chunk>> it reported "No match" for

vars == <<call, ret, pc, predicted, gold_standard, iou_threshold,
          use_fuzzy_matching, unmatched_gold, match_details, idx, failed_on>>

chunk_vars == <<predicted, gold_standard, iou_threshold, use_fuzzy_matching,
                unmatched_gold, match_details, idx, failed_on>>

\* The compare_chunks variables while a pure function is checked.
ChunksIdle ==
    /\ predicted = <<>>
    /\ gold_standard = <<>>
    /\ iou_threshold = [num |-> 0, den |-> 1]
    /\ use_fuzzy_matching = TRUE
    /\ unmatched_gold = <<>>
    /\ match_details = <<>>
    /\ idx = 0
    /\ failed_on = <<>>

(***************************************************************************)
(* Sequences, integers, rationals                                          *)
(***************************************************************************)
Max(a, b) == IF a >= b THEN a ELSE b

Min(a, b) == IF a <= b THEN a ELSE b

Abs(a) == IF a < 0 THEN -a ELSE a

RECURSIVE Gcd(_, _)
Gcd(a, b) == IF b = 0 THEN a ELSE Gcd(b, a % b)

\* The rational n/d (d # 0) in lowest terms with a positive denominator.
Rat(n, d) ==
    LET s == IF d < 0 THEN -1 ELSE 1
        g == Gcd(Abs(n), Abs(d))
    IN  [num |-> (s * n) \div g, den |-> (s * d) \div g]

RatInt(n) == [num |-> n, den |-> 1]

RatLeq(x, y) == x.num * y.den <= y.num * x.den

RatLt(x, y) == x.num * y.den < y.num * x.den

RatAdd(x, y) == Rat(x.num * y.den + y.num * x.den, x.den * y.den)

RatMul(x, y) == Rat(x.num * y.num, x.den * y.den)

\* x / y for y # 0
RatDiv(x, y) == Rat(x.num * y.den, x.den * y.num)

\* All sequences over S of length at most n.
SeqsUpTo(S, n) == UNION {[1..k -> S] : k \in 0..n}

\* s without its element at position i.
RemoveAt(s, i) == SubSeq(s, 1, i - 1) \o SubSeq(s, i + 1, Len(s))

(***************************************************************************)
(* Python str methods used by the engine                                   *)
(***************************************************************************)
UpperToLower ==
    ("A" :> "a") @@ ("B" :> "b") @@ ("C" :> "c") @@ ("D" :> "d") @@
    ("E" :> "e") @@ ("F" :> "f") @@ ("G" :> "g") @@ ("H" :> "h") @@
    ("I" :> "i") @@ ("J" :> "j") @@ ("K" :> "k") @@ ("L" :> "l") @@
    ("M" :> "m") @@ ("N" :> "n") @@ ("O" :> "o") @@ ("P" :> "p") @@
    ("Q" :> "q") @@ ("R" :> "r") @@ ("S" :> "s") @@ ("T" :> "t") @@
    ("U" :> "u") @@ ("V" :> "v") @@ ("W" :> "w") @@ ("X" :> "x") @@
    ("Y" :> "y") @@ ("Z" :> "z")

\* str.lower()
StrLower(s) ==
    [i \in 1..Len(s) |->
        IF s[i] \in DOMAIN UpperToLower THEN UpperToLower[s[i]] ELSE s[i]]

IsSpace(c) == c \in {" ", "\t", "\n"}

RECURSIVE LStrip(_)
LStrip(s) ==
    IF s # <<>> /\ IsSpace(Head(s)) THEN LStrip(Tail(s)) ELSE s

RECURSIVE RStrip(_)
RStrip(s) ==
    IF s # <<>> /\ IsSpace(s[Len(s)])
    THEN RStrip(SubSeq(s, 1, Len(s) - 1))
    ELSE s

\* str.strip()
StrStrip(s) == RStrip(LStrip(s))

\* str.split(): the maximal runs of non-whitespace characters, in order.
RECURSIVE SplitFrom(_, _, _)
SplitFrom(s, i, word) ==
    IF i > Len(s)
    THEN IF word = <<>> THEN <<>> ELSE <<word>>
    ELSE IF IsSpace(s[i])
         THEN (IF word = <<>> THEN <<>> ELSE <<word>>) \o SplitFrom(s, i + 1, <<>>)
         ELSE SplitFrom(s, i + 1, Append(word, s[i]))

StrSplit(s) == SplitFrom(s, 1, <<>>)

\* a in b, for strings
StrIn(a, b) ==
    \E i \in 0..(Len(b) - Len(a)) : SubSeq(b, i + 1, i + Len(a)) = a

\* b.startswith(a)
StartsWith(b, a) == Len(a) <= Len(b) /\ SubSeq(b, 1, Len(a)) = a

\* s[:n]
Prefix(s, n) == SubSeq(s, 1, Min(n, Len(s)))

(***************************************************************************)
(* calculate_levenshtein_distance: two rolling rows                        *)
(***************************************************************************)
\* list(range(n + 1))
RangeRow(n) == [j \in 1..(n + 1) |-> j - 1]

\* A substitution costing 2 whenever the characters differ.
SubstitutionCost_Two(c1, c2) == IF c1 # c2 THEN 2 ELSE 0

\* A substitution costing 1 also when the characters are equal.
SubstitutionCost_IgnoresEquality(c1, c2) == 1

\* (c1 != c2) as an integer
SubstitutionCost(c1, c2) == IF c1 # c2 THEN 1 ELSE 0

\* The inner loop over s2 for one character c1 of s1.  current_row holds j + 1
\* entries when the loop reaches the 0-based index j, and the loop ends when it
\* holds len(s2) + 1.
RECURSIVE InnerRow(_, _, _, _)
InnerRow(c1, s2, previous_row, current_row) ==
    IF Len(current_row) = Len(s2) + 1
    THEN current_row
    ELSE LET j == Len(current_row) - 1
             insertions == previous_row[j + 2] + 1
             deletions == current_row[j + 1] + 1
             substitutions == previous_row[j + 1] + SubstitutionCost(c1, s2[j + 1])
         IN  InnerRow(c1, s2, previous_row,
                      Append(current_row, Min(insertions, Min(deletions, substitutions))))

\* The outer loop over s1; i is the 0-based index.  Every row holds
\* len(s2) + 1 entries; reading the row's length first makes the row of this
\* iteration a value before the next iteration starts.
RECURSIVE OuterRows(_, _, _, _)
OuterRows(s1, s2, previous_row, i) ==
    IF Len(previous_row) = Len(s2) + 1 /\ i = Len(s1)
    THEN previous_row
    ELSE OuterRows(s1, s2, InnerRow(s1[i + 1], s2, previous_row, <<i + 1>>), i + 1)

calculate_levenshtein_distance(s1, s2) ==
    LET a == IF Len(s1) < Len(s2) THEN s2 ELSE s1
        b == IF Len(s1) < Len(s2) THEN s1 ELSE s2
    IN  IF Len(b) = 0
        THEN Len(a)
        ELSE LET row == OuterRows(a, b, RangeRow(Len(b)), 0)
             IN  row[Len(row)]

(***************************************************************************)
(* fuzzy_title_match                                                       *)
(***************************************************************************)
\* default of the parameter max_distance
DefaultMaxDistance == 3

\* WordsSimilar without the shared 4-character prefix rule.
WordsSimilar_NoPrefixRule(word_a, word_b) ==
    \/ StrIn(word_a, word_b)
    \/ StrIn(word_b, word_a)

\* The condition of the inner if of check_word_similarity.
WordsSimilar(word_a, word_b) ==
    \/ StrIn(word_a, word_b)
    \/ StrIn(word_b, word_a)
    \/ StartsWith(word_b, word_a)
    \/ StartsWith(word_a, word_b)
    \/ (Len(word_a) >= 4 /\ Len(word_b) >= 4 /\ Prefix(word_a, 4) = Prefix(word_b, 4))

\* check_word_similarity failing for an empty list of words.
check_word_similarity_NeedsWords(words_a, words_b) ==
    /\ words_a # <<>>
    /\ \A i \in 1..Len(words_a) :
           \E j \in 1..Len(words_b) : WordsSimilar(words_a[i], words_b[j])

\* matches counts the words of words_a that find a similar word in words_b.
check_word_similarity(words_a, words_b) ==
    LET matches == Cardinality({i \in 1..Len(words_a) :
                       \E j \in 1..Len(words_b) : WordsSimilar(words_a[i], words_b[j])})
    IN  matches = Len(words_a)

\* EditThreshold with the 20% allowance rounded up.
EditThreshold_RoundedUp(max_distance, max_len) == Max(max_distance, (max_len + 4) \div 5)

\* threshold = max(max_distance, int(max_len * 0.2)); int() truncates, and
\* max_len * 0.2 is never below the integer max_len / 5 when 5 divides max_len.
EditThreshold(max_distance, max_len) == Max(max_distance, max_len \div 5)

fuzzy_title_match(title1, title2, max_distance) ==
    LET norm1 == StrStrip(StrLower(title1))
        norm2 == StrStrip(StrLower(title2))
        words1 == StrSplit(norm1)
        words2 == StrSplit(norm2)
        distance == calculate_levenshtein_distance(norm1, norm2)
        max_len == Max(Len(norm1), Len(norm2))
    IN  IF norm1 = norm2
        THEN TRUE
        ELSE IF check_word_similarity(words1, words2) \/ check_word_similarity(words2, words1)
             THEN TRUE
             ELSE distance <= EditThreshold(max_distance, max_len)

(***************************************************************************)
(* Specification of fuzzy_title_match                                      *)
(***************************************************************************)
MaxTitleLen == 3

TitleAlphabet == {"a", "b", "A", " "}

SampleTitles == {
    <<"M", "a", "t", "e", "r", "i", "a", "l", " ", "S", "p", "e", "c", "s">>,
    <<"M", "a", "t", "e", "r", "i", "a", "l", " ", "S", "p", "e", "c", "i", "f",
      "i", "c", "a", "t", "i", "o", "n", "s">>,
    <<"Z", "o", "n", "e", " ", "1", " ", "-", " ", "E", "a", "s", "t", " ", "W",
      "i", "n", "g">>,
    <<"Z", "o", "n", "e", " ", "1", " ", "E", "a", "s", "t", " ", "W", "i", "n", "g">>,
    <<"S", "y", "s", "t", "e", "m", " ", "O", "v", "e", "r", "v", "i", "e", "w">>,
    <<"C", "o", "m", "p", "l", "e", "t", "e", "l", "y", " ", "D", "i", "f", "f",
      "e", "r", "e", "n", "t">>,
    <<"f", "i", "r", "e", " ", "p", "i", "p", "i", "n", "g", " ", "s", "y", "s",
      "t", "e", "m">>,
    <<"t", "i", "r", "e", " ", "h", "i", "p", "i", "n", "g", " ", "z", "y", "s",
      "t", "e", "n">>,
    <<"t", "i", "r", "e", " ", "h", "i", "p", "i", "n", "g", " ", "z", "y", "s",
      "t", "e", "m">>,
    <<"a", "a", "a", "a", "b">>,
    <<"a", "a", "a", "a", "a", " ", "b">>
}

TitleInputs == SeqsUpTo(TitleAlphabet, MaxTitleLen) \cup SampleTitles

InitTitle ==
    /\ call \in [op : {"fuzzy_title_match"}, title1 : TitleInputs,
                 title2 : TitleInputs, max_distance : 0..DefaultMaxDistance]
    /\ ret = <<>>
    /\ pc = "call"
    /\ ChunksIdle

Do_fuzzy_title_match ==
    /\ pc = "call"
    /\ call.op = "fuzzy_title_match"
    /\ ret' = <<fuzzy_title_match(call.title1, call.title2, call.max_distance)>>
    /\ pc' = "done"
    /\ UNCHANGED <<call, chunk_vars>>

NextTitle == Do_fuzzy_title_match

SpecTitle == InitTitle /\ [][NextTitle]_vars

\* The call of fuzzy_title_match has returned.
TitleDone == pc = "done" /\ call.op = "fuzzy_title_match"

TitleNorm1 == StrStrip(StrLower(call.title1))

TitleNorm2 == StrStrip(StrLower(call.title2))

\* Every token of A has a token of B that contains it or is contained in it, or
\* that shares its first 4 characters when both have at least 4.
TokensCovered(A, B) ==
    \A i \in 1..Len(A) : \E j \in 1..Len(B) :
        \/ StrIn(A[i], B[j])
        \/ StrIn(B[j], A[i])
        \/ (Len(A[i]) >= 4 /\ Len(B[j]) >= 4 /\ SubSeq(A[i], 1, 4) = SubSeq(B[j], 1, 4))

\* Exact equality or the token test, in either direction, succeeds.
TitleEarlyMatch ==
    \/ TitleNorm1 = TitleNorm2
    \/ TokensCovered(StrSplit(TitleNorm1), StrSplit(TitleNorm2))
    \/ TokensCovered(StrSplit(TitleNorm2), StrSplit(TitleNorm1))

TitleDistance == calculate_levenshtein_distance(TitleNorm1, TitleNorm2)

TitleLongerLen == Max(Len(TitleNorm1), Len(TitleNorm2))

\* C7 as claimed: when neither exact equality nor the token test succeeds, the
\* result is True iff the edit distance of the normalized titles is at most
\* max(max_distance, ceil(0.2 * L)), L the length of the longer normalized title.
C7_Original ==
    (TitleDone /\ ~TitleEarlyMatch) =>
        (ret[1] <=> TitleDistance <= Max(call.max_distance, (TitleLongerLen + 4) \div 5))

\* C7 as amended: when neither exact equality nor the token test succeeds, the
\* result is True iff the edit distance of the normalized titles is at most
\* max(max_distance, floor(0.2 * L)): the 20% allowance is rounded down.
C7_EditThresholdRoundsDown ==
    (TitleDone /\ ~TitleEarlyMatch) =>
        (ret[1] <=> TitleDistance <= Max(call.max_distance, TitleLongerLen \div 5))

\* C7 witness: a call decided by the edit-distance fallback in which the 20%
\* allowance is larger than max_distance and admits the pair.
C7_Witness ==
    /\ TitleDone
    /\ ~TitleEarlyMatch
    /\ TitleLongerLen \div 5 > call.max_distance
    /\ TitleDistance > call.max_distance
    /\ ret[1] = TRUE

MaterialSpecs == <<"M", "a", "t", "e", "r", "i", "a", "l", " ", "S", "p", "e", "c", "s">>

MaterialSpecifications ==
    <<"M", "a", "t", "e", "r", "i", "a", "l", " ", "S", "p", "e", "c", "i", "f",
      "i", "c", "a", "t", "i", "o", "n", "s">>

\* C8: fuzzy_title_match returns True, whatever the edit distance, when the
\* titles are equal after lower-casing and trimming or when, in at least one
\* direction, every token of one title has a token of the other that contains it,
\* is contained in it, or shares its first 4 characters (both of length >= 4).
C8_TokenTestMatches ==
    (TitleDone /\ TitleEarlyMatch) => ret[1] = TRUE

\* C8 witness: 'Material Specs' against 'Material Specifications' returns True
\* although the edit distance exceeds the threshold.
C8_Witness ==
    /\ TitleDone
    /\ call.title1 = MaterialSpecs
    /\ call.title2 = MaterialSpecifications
    /\ TitleNorm1 # TitleNorm2
    /\ TitleDistance > Max(call.max_distance, (TitleLongerLen + 4) \div 5)
    /\ ret[1] = TRUE

(***************************************************************************)
(* Python values: numbers and strings                                      *)
(***************************************************************************)
\* An int or a float; 2 and 2.0 are equal in Python and are one value here.
PyNum(n, d) == [kind |-> "num", val |-> Rat(n, d)]

PyInt(n) == PyNum(n, 1)

\* float('nan'): the float that is unequal to every float, itself included.
\* It is the one number here whose denominator is 0.
PyNaN == [kind |-> "num", val |-> [num |-> 1, den |-> 0]]

IsNaN(v) == v.kind = "num" /\ v.val.den = 0

PyStr(s) == [kind |-> "str", val |-> s]

\* A raised exception, by its type.
PyError(type) == [kind |-> "error", val |-> type]

IsError(v) == v.kind = "error"

Digits == ("0" :> 0) @@ ("1" :> 1) @@ ("2" :> 2) @@ ("3" :> 3) @@ ("4" :> 4) @@
          ("5" :> 5) @@ ("6" :> 6) @@ ("7" :> 7) @@ ("8" :> 8) @@ ("9" :> 9)

IsDigits(s) == s # <<>> /\ \A i \in 1..Len(s) : s[i] \in DOMAIN Digits

\* The value of a non-empty string of decimal digits.
RECURSIVE DigitsValue(_)
DigitsValue(s) ==
    IF s = <<>> THEN 0
    ELSE 10 * DigitsValue(SubSeq(s, 1, Len(s) - 1)) + Digits[s[Len(s)]]

\* int(s) for a string: surrounding whitespace is ignored, an optional sign
\* precedes the digits; anything else raises ValueError.
IntOfStr(s) ==
    LET t == StrStrip(s)
        signed == t # <<>> /\ Head(t) \in {"+", "-"}
        body == IF signed THEN Tail(t) ELSE t
    IN  IF IsDigits(body)
        THEN PyInt(IF signed /\ Head(t) = "-" THEN -DigitsValue(body) ELSE DigitsValue(body))
        ELSE PyError("ValueError")

\* int(x) for a number: truncation towards zero; int(nan) raises ValueError.
IntOfNum(x) ==
    IF IsNaN(x) THEN PyError("ValueError")
    ELSE PyInt(IF x.val.num < 0
               THEN -(Abs(x.val.num) \div x.val.den)
               ELSE Abs(x.val.num) \div x.val.den)

normalize_page_number(page) ==
    IF page.kind = "str"
    THEN IntOfStr(StrStrip(page.val))
    ELSE IntOfNum(page)

\* The int a page value of a chunk normalizes to (chunk pages are integers).
PageInt(page) == normalize_page_number(PyInt(page)).val.num

(***************************************************************************)
(* calculate_iou_advanced, calculate_iou                                   *)
(***************************************************************************)
\* IntersectionSize without the clamp at 0.
IntersectionSize_NoClamp(pred_start, pred_end, gold_start, gold_end) ==
    Min(pred_end, gold_end) - Max(pred_start, gold_start) + 1

IntersectionSize(pred_start, pred_end, gold_start, gold_end) ==
    LET intersection_start == Max(pred_start, gold_start)
        intersection_end == Min(pred_end, gold_end)
    IN  Max(0, intersection_end - intersection_start + 1)

\* RangeSize of a half-open range.
RangeSize_Exclusive(start, end) == end - start

\* The number of pages of an inclusive range.
RangeSize(start, end) == end - start + 1

\* UnionSize counting the shared pages twice.
UnionSize_NoSubtraction(pred_size, gold_size, intersection) == pred_size + gold_size

UnionSize(pred_size, gold_size, intersection) == pred_size + gold_size - intersection

calculate_iou_advanced(pred_chunk, gold_chunk) ==
    LET pred_start == PageInt(pred_chunk.start_page)
        pred_end == PageInt(pred_chunk.end_page)
        gold_start == PageInt(gold_chunk.start_page)
        gold_end == PageInt(gold_chunk.end_page)
        intersection == IntersectionSize(pred_start, pred_end, gold_start, gold_end)
        pred_size == RangeSize(pred_start, pred_end)
        gold_size == RangeSize(gold_start, gold_end)
        union == UnionSize(pred_size, gold_size, intersection)
        iou == IF union > 0 THEN Rat(intersection, union) ELSE RatInt(0)
    IN  [iou |-> iou,
         intersection |-> intersection,
         union |-> union,
         pred_size |-> pred_size,
         gold_size |-> gold_size,
         size_ratio |-> IF gold_size > 0 THEN Rat(pred_size, gold_size) ELSE RatInt(0),
         overlap_percentage |->
             IF gold_size > 0 THEN Rat(intersection, gold_size) ELSE RatInt(0)]

calculate_iou(pred_chunk, gold_chunk) == calculate_iou_advanced(pred_chunk, gold_chunk).iou

(***************************************************************************)
(* Specification of calculate_iou_advanced and calculate_iou               *)
(***************************************************************************)
MaxIoUPage == 7

\* Page ranges, the degenerate ones (start_page > end_page) included.
IoURanges == [start_page : 1..MaxIoUPage, end_page : 1..MaxIoUPage]

InitIoU ==
    /\ call \in [op : {"calculate_iou_advanced", "calculate_iou"},
                 pred_chunk : IoURanges, gold_chunk : IoURanges]
    /\ ret = <<>>
    /\ pc = "call"
    /\ ChunksIdle

Do_calculate_iou_advanced ==
    /\ pc = "call"
    /\ call.op = "calculate_iou_advanced"
    /\ ret' = <<calculate_iou_advanced(call.pred_chunk, call.gold_chunk)>>
    /\ pc' = "done"
    /\ UNCHANGED <<call, chunk_vars>>

Do_calculate_iou ==
    /\ pc = "call"
    /\ call.op = "calculate_iou"
    /\ ret' = <<calculate_iou(call.pred_chunk, call.gold_chunk)>>
    /\ pc' = "done"
    /\ UNCHANGED <<call, chunk_vars>>

NextIoU ==
    \/ Do_calculate_iou_advanced
    \/ Do_calculate_iou

SpecIoU == InitIoU /\ [][NextIoU]_vars

\* The claimed sizes of a call: intersection and union of the two ranges.
ClaimedIntersection ==
    LET lo == Max(call.pred_chunk.start_page, call.gold_chunk.start_page)
        hi == Min(call.pred_chunk.end_page, call.gold_chunk.end_page)
    IN  IF hi - lo + 1 > 0 THEN hi - lo + 1 ELSE 0

ClaimedPredSize == call.pred_chunk.end_page - call.pred_chunk.start_page + 1

ClaimedGoldSize == call.gold_chunk.end_page - call.gold_chunk.start_page + 1

ClaimedUnion == ClaimedPredSize + ClaimedGoldSize - ClaimedIntersection

\* x is the quotient ClaimedIntersection / ClaimedUnion, 0.0 when the union is 0.
IsClaimedIoU(x) ==
    IF ClaimedUnion = 0
    THEN x.num = 0
    ELSE x.num * ClaimedUnion = ClaimedIntersection * x.den

\* C9: calculate_iou_advanced returns pred_size = pred_end - pred_start + 1,
\* gold_size = gold_end - gold_start + 1, intersection = max(0, min(ends) -
\* max(starts) + 1), union = pred_size + gold_size - intersection and iou =
\* intersection / union (0.0 when union is 0); calculate_iou returns the same iou.
C9_IoUMetrics ==
    /\ (pc = "done" /\ call.op = "calculate_iou_advanced") =>
            /\ ret[1].pred_size = ClaimedPredSize
            /\ ret[1].gold_size = ClaimedGoldSize
            /\ ret[1].intersection = ClaimedIntersection
            /\ ret[1].union = ClaimedUnion
            /\ IsClaimedIoU(ret[1].iou)
    /\ (pc = "done" /\ call.op = "calculate_iou") => IsClaimedIoU(ret[1])

\* C9 witness: [1,5] against [3,7] gives intersection 3, union 7 and iou 3/7.
C9_Witness ==
    /\ pc = "done"
    /\ call.op = "calculate_iou_advanced"
    /\ call.pred_chunk = [start_page |-> 1, end_page |-> 5]
    /\ call.gold_chunk = [start_page |-> 3, end_page |-> 7]
    /\ ret[1].intersection = 3
    /\ ret[1].union = 7
    /\ ret[1].iou = [num |-> 3, den |-> 7]

\* The iou a finished call returned.
ReturnedIoU == IF call.op = "calculate_iou" THEN ret[1] ELSE ret[1].iou

\* C10: the IoU returned by calculate_iou / calculate_iou_advanced lies in
\* [0, 1] for every pair of integer page ranges, the degenerate ones included.
C10_IoUInUnitInterval ==
    (pc = "done" /\ call.op \in {"calculate_iou_advanced", "calculate_iou"}) =>
        /\ ReturnedIoU.den > 0
        /\ 0 <= ReturnedIoU.num
        /\ ReturnedIoU.num <= ReturnedIoU.den

\* C10 witness: two degenerate ranges whose union is negative give iou 0.
C10_Witness ==
    /\ pc = "done"
    /\ call.op = "calculate_iou_advanced"
    /\ call.pred_chunk.start_page > call.pred_chunk.end_page + 1
    /\ call.gold_chunk.start_page > call.gold_chunk.end_page + 1
    /\ ret[1].union < 0
    /\ ret[1].iou = RatInt(0)

(***************************************************************************)
(* normalize_material                                                      *)
(***************************************************************************)
\* The characters the regular expression class \w matches.
WordChars ==
    DOMAIN UpperToLower \cup {UpperToLower[c] : c \in DOMAIN UpperToLower}
        \cup DOMAIN Digits \cup {"_"}

\* str.replace(old, new) for a one-character old.
ReplaceChar(s, old, new) == [i \in 1..Len(s) |-> IF s[i] = old THEN new ELSE s[i]]

\* re.sub(r'[^\w\s]', '', s): the characters that are neither word characters
\* nor whitespace are removed.
StripPunctuation(s) == SelectSeq(s, LAMBDA c : c \in WordChars \/ IsSpace(c))

\* re.sub(r'\s+', ' ', s): every maximal run of whitespace becomes one space.
RECURSIVE CollapseSpaces(_)
CollapseSpaces(s) ==
    IF s = <<>> THEN <<>>
    ELSE IF IsSpace(Head(s))
         THEN <<" ">> \o CollapseSpaces(LStrip(s))
         ELSE <<Head(s)>> \o CollapseSpaces(Tail(s))

normalize_material(material) ==
    LET lowered == StrStrip(StrLower(material))
        spaced == ReplaceChar(lowered, "-", " ")
        cleaned == StripPunctuation(spaced)
    IN  CollapseSpaces(cleaned)

(***************************************************************************)
(* normalize_diameter                                                      *)
(***************************************************************************)
\* str.replace(old, ''): occurrences of old are removed, scanning from the left
\* without overlap.
RECURSIVE RemoveAll(_, _)
RemoveAll(s, old) ==
    IF Len(s) < Len(old) THEN s
    ELSE IF SubSeq(s, 1, Len(old)) = old
         THEN RemoveAll(SubSeq(s, Len(old) + 1, Len(s)), old)
         ELSE <<Head(s)>> \o RemoveAll(Tail(s), old)

\* str.split(sep) for a one-character sep: the pieces between the separators,
\* the empty ones included.
RECURSIVE SplitOn(_, _, _)
SplitOn(s, sep, piece) ==
    IF s = <<>> THEN <<piece>>
    ELSE IF Head(s) = sep
         THEN <<piece>> \o SplitOn(Tail(s), sep, <<>>)
         ELSE SplitOn(Tail(s), sep, Append(piece, Head(s)))

RECURSIVE Pow10(_)
Pow10(k) == IF k = 0 THEN 1 ELSE 10 * Pow10(k - 1)

\* float(s) for a string of digits, sign, point, whitespace and the letters of
\* 'nan': an optional sign, then either digits with at most one decimal point
\* and at least one digit, or 'nan' in any case; anything else raises
\* ValueError.
FloatOfStr(s) ==
    LET t == StrStrip(s)
        signed == t # <<>> /\ Head(t) \in {"+", "-"}
        body == IF signed THEN Tail(t) ELSE t
        pieces == SplitOn(body, ".", <<>>)
        whole == pieces[1]
        frac == IF Len(pieces) = 2 THEN pieces[2] ELSE <<>>
        wellformed ==
            /\ Len(pieces) <= 2
            /\ whole \o frac # <<>>
            /\ \A i \in 1..Len(whole \o frac) : (whole \o frac)[i] \in DOMAIN Digits
        magnitude == Rat(DigitsValue(whole \o frac), Pow10(Len(frac)))
    IN  IF StrLower(body) = <<"n", "a", "n">> THEN PyNaN
        ELSE IF wellformed
        THEN [kind |-> "num",
              val |-> IF signed /\ Head(t) = "-"
                      THEN Rat(-magnitude.num, magnitude.den)
                      ELSE magnitude]
        ELSE PyError("ValueError")

\* float(a) / float(b)
FloatQuotient(a, b) ==
    LET x == FloatOfStr(a)
        y == FloatOfStr(b)
    IN  IF IsError(x) THEN x
        ELSE IF IsError(y) THEN y
        ELSE IF y.val.num = 0 THEN PyError("ZeroDivisionError")
        ELSE IF IsNaN(x) \/ IsNaN(y) THEN PyNaN
        ELSE [kind |-> "num", val |-> RatDiv(x.val, y.val)]

\* float(frac_parts[0]) / float(frac_parts[1]) for the pieces after the dash:
\* the first float() runs before frac_parts[1] is read.
DashFraction(frac_parts) ==
    IF Len(frac_parts) < 2
    THEN IF IsError(FloatOfStr(frac_parts[1]))
         THEN PyError("ValueError")
         ELSE PyError("IndexError")
    ELSE FloatQuotient(frac_parts[1], frac_parts[2])

\* WholePlusFraction returning the whole part alone.
WholePlusFraction_DropsFraction(whole, fraction) ==
    IF IsError(whole) THEN whole
    ELSE IF IsError(fraction) THEN fraction
    ELSE whole

\* whole + fraction, the first exception raised winning.
WholePlusFraction(whole, fraction) ==
    IF IsError(whole) THEN whole
    ELSE IF IsError(fraction) THEN fraction
    ELSE IF IsNaN(whole) \/ IsNaN(fraction) THEN PyNaN
    ELSE [kind |-> "num", val |-> RatAdd(whole.val, fraction.val)]

\* The branch for '-' in diameter: parts = diameter.split('-').
MixedNumber(parts) ==
    WholePlusFraction(FloatOfStr(parts[1]), DashFraction(SplitOn(parts[2], "/", <<>>)))

\* The branch for '/' in diameter: parts = diameter.split('/').
SimpleFraction(parts) == FloatQuotient(parts[1], parts[2])

\* The parsing of the cleaned string d.
ParseDiameter(d) ==
    IF \E i \in 1..Len(d) : d[i] = "-"
    THEN MixedNumber(SplitOn(d, "-", <<>>))
    ELSE IF \E i \in 1..Len(d) : d[i] = "/"
         THEN SimpleFraction(SplitOn(d, "/", <<>>))
         ELSE FloatOfStr(d)

normalize_diameter(diameter) ==
    ParseDiameter(StrStrip(RemoveAll(RemoveAll(RemoveAll(StrStrip(diameter), <<"\"">>),
                                               <<"i", "n", "c", "h">>),
                                     <<"i", "n">>)))

(***************************************************************************)
(* Entities: normalize_entity, entities_match, score_entities              *)
(*                                                                         *)
(* An entity is a function from the field names it defines to their        *)
(* values.  id, type and schedule are strings, material is a string of     *)
(* characters, diameter and location_page are Python values.               *)
(***************************************************************************)
\* normalize_entity raised: the result is the exception, not an entity.
IsRaised(r) == "kind" \in DOMAIN r

\* The value standing for a field the entity does not define.
Absent == [kind |-> "absent", val |-> <<>>]

\* The normalized copy, given the normalized diameter and page; an exception
\* raised by the diameter comes before one raised by the page.
NormalizedCopy(entity, diameter, location_page) ==
    IF IsError(diameter) THEN diameter
    ELSE IF IsError(location_page) THEN location_page
    ELSE [f \in DOMAIN entity |->
            CASE f = "material" -> normalize_material(entity[f])
              [] f = "diameter" -> diameter
              [] f = "location_page" -> location_page
              [] OTHER -> entity[f]]

normalize_entity(entity) ==
    NormalizedCopy(entity,
        IF "diameter" \notin DOMAIN entity THEN Absent
        ELSE IF entity["diameter"].kind = "str"
             THEN normalize_diameter(entity["diameter"].val)
             ELSE entity["diameter"],
        IF "location_page" \notin DOMAIN entity THEN Absent
        ELSE normalize_page_number(entity["location_page"]))

key_fields == <<"type", "material", "diameter", "schedule">>

\* The fixed page tolerance of entities_match.
EntityPageTolerance == 1

\* abs(page1 - page2) > 1, for two numbers
PageDiffTooLarge(page1, page2) ==
    Abs(page1.val.num * page2.val.den - page2.val.num * page1.val.den)
        > EntityPageTolerance * page1.val.den * page2.val.den

\* entities_match comparing id as one more key field.
entities_match_WithId(entity1, entity2) ==
    /\ \A f \in {key_fields[i] : i \in 1..Len(key_fields)} \cup {"id"} :
            (f \in DOMAIN entity1 /\ f \in DOMAIN entity2) => entity1[f] = entity2[f]
    /\ ("location_page" \in DOMAIN entity1 /\ "location_page" \in DOMAIN entity2) =>
            ~PageDiffTooLarge(entity1["location_page"], entity2["location_page"])

\* value1 != value2 for the values of a field: nan differs from every value,
\* itself included.
NotEqual(field, value1, value2) ==
    \/ value1 # value2
    \/ field = "diameter" /\ IsNaN(value1)

\* The loop over key_fields from position i on, then the page check.
RECURSIVE MatchFrom(_, _, _)
MatchFrom(entity1, entity2, i) ==
    IF i > Len(key_fields)
    THEN IF "location_page" \in DOMAIN entity1 /\ "location_page" \in DOMAIN entity2
         THEN ~PageDiffTooLarge(entity1["location_page"], entity2["location_page"])
         ELSE TRUE
    ELSE IF /\ key_fields[i] \in DOMAIN entity1
            /\ key_fields[i] \in DOMAIN entity2
            /\ NotEqual(key_fields[i], entity1[key_fields[i]], entity2[key_fields[i]])
         THEN FALSE
         ELSE MatchFrom(entity1, entity2, i + 1)

\* entities_match failing when only one of the entities defines a key field.
entities_match_MissingFieldFails(entity1, entity2) ==
    /\ \A i \in 1..Len(key_fields) :
           (key_fields[i] \in DOMAIN entity1) = (key_fields[i] \in DOMAIN entity2)
    /\ MatchFrom(entity1, entity2, 1)

\* For normalized entities: the pages are numbers.
entities_match(entity1, entity2) == MatchFrom(entity1, entity2, 1)

\* The inner loop of score_entities from gold position j on: 1 at the first
\* gold entity that matches (then break), 0 when none does.
RECURSIVE FirstMatch(_, _, _)
FirstMatch(pred_entity, norm_gold, j) ==
    IF j > Len(norm_gold) THEN 0
    ELSE IF entities_match(pred_entity, norm_gold[j]) THEN 1
    ELSE FirstMatch(pred_entity, norm_gold, j + 1)

\* CountTruePositives with one-to-one consumption: a gold entity that matched
\* is removed from the gold list.
RECURSIVE CountTruePositives_Consuming(_, _, _)
CountTruePositives_Consuming(norm_predicted, norm_gold, i) ==
    IF i > Len(norm_predicted) THEN 0
    ELSE LET hits == {j \in 1..Len(norm_gold) : entities_match(norm_predicted[i], norm_gold[j])}
         IN  IF hits = {}
             THEN CountTruePositives_Consuming(norm_predicted, norm_gold, i + 1)
             ELSE 1 + CountTruePositives_Consuming(norm_predicted,
                          RemoveAt(norm_gold, CHOOSE j \in hits : \A k \in hits : j <= k),
                          i + 1)

\* The outer loop of score_entities from predicted position i on.
RECURSIVE CountTruePositives(_, _, _)
CountTruePositives(norm_predicted, norm_gold, i) ==
    IF i > Len(norm_predicted) THEN 0
    ELSE FirstMatch(norm_predicted[i], norm_gold, 1)
             + CountTruePositives(norm_predicted, norm_gold, i + 1)

\* [normalize_entity(e) for e in entities]
NormalizeAll(entities) ==
    [i \in 1..Len(entities) |-> normalize_entity(entities[i])]

\* The first exception the list comprehension raised, if any.
FirstRaised(norm) ==
    IF \A i \in 1..Len(norm) : ~IsRaised(norm[i]) THEN <<>>
    ELSE <<norm[CHOOSE i \in 1..Len(norm) :
                    IsRaised(norm[i]) /\ \A k \in 1..(i - 1) : ~IsRaised(norm[k])]>>

Scores(p, r, f) == [precision |-> p, recall |-> r, f1_score |-> f]

\* f1_score from precision and recall.
F1Score(precision, recall) ==
    IF RatLt(RatInt(0), RatAdd(precision, recall))
    THEN RatDiv(RatMul(RatInt(2), RatMul(precision, recall)), RatAdd(precision, recall))
    ELSE RatInt(0)

\* The metrics from the count of true positives and the two list lengths.
ScoresOf(true_positives, n_predicted, n_gold) ==
    Scores(Rat(true_positives, n_predicted), Rat(true_positives, n_gold),
           F1Score(Rat(true_positives, n_predicted), Rat(true_positives, n_gold)))

\* score_entities from the two normalized lists on (both non-empty).
ScoreNormalized(norm_predicted, norm_gold) ==
    IF FirstRaised(norm_predicted) # <<>> THEN FirstRaised(norm_predicted)[1]
    ELSE IF FirstRaised(norm_gold) # <<>> THEN FirstRaised(norm_gold)[1]
    ELSE ScoresOf(CountTruePositives(norm_predicted, norm_gold, 1),
                  Len(norm_predicted), Len(norm_gold))

\* score_entities normalizing the two lists before it looks at their lengths.
score_entities_NormalizesFirst(predicted_entities, gold_entities) ==
    IF FirstRaised(NormalizeAll(predicted_entities)) # <<>>
    THEN FirstRaised(NormalizeAll(predicted_entities))[1]
    ELSE IF FirstRaised(NormalizeAll(gold_entities)) # <<>>
    THEN FirstRaised(NormalizeAll(gold_entities))[1]
    ELSE IF predicted_entities = <<>> /\ gold_entities = <<>>
    THEN Scores(RatInt(1), RatInt(1), RatInt(1))
    ELSE IF predicted_entities = <<>> \/ gold_entities = <<>>
    THEN Scores(RatInt(0), RatInt(0), RatInt(0))
    ELSE ScoreNormalized(NormalizeAll(predicted_entities), NormalizeAll(gold_entities))

score_entities(predicted_entities, gold_entities) ==
    IF predicted_entities = <<>> /\ gold_entities = <<>>
    THEN Scores(RatInt(1), RatInt(1), RatInt(1))
    ELSE IF predicted_entities = <<>> THEN Scores(RatInt(0), RatInt(0), RatInt(0))
    ELSE IF gold_entities = <<>> THEN Scores(RatInt(0), RatInt(0), RatInt(0))
    ELSE ScoreNormalized(NormalizeAll(predicted_entities), NormalizeAll(gold_entities))

(***************************************************************************)
(* Specification of normalize_material and normalize_entity                *)
(***************************************************************************)
MaxMaterialLen == 4

MaterialAlphabet == {"a", "B", "1", "-", ",", " "}

SampleMaterials == {
    <<"G", "a", "l", "v", "a", "n", "i", "z", "e", "d", " ", "S", "t", "e", "e", "l">>,
    <<"P", "V", "C", "-", "S", "c", "h", "e", "d", "u", "l", "e", " ", "4", "0">>,
    <<"C", "O", "P", "P", "E", "R", ",", " ", "T", "Y", "P", "E", " ", "L">>
}

MaterialInputs == SeqsUpTo(MaterialAlphabet, MaxMaterialLen) \cup SampleMaterials

\* The entity that defines no field.
EmptyEntity == [f \in {} |-> ""]

\* Field f left out, or defined with a value of S.
OptField(f, S) == {EmptyEntity} \cup {f :> v : v \in S}

\* The entities whose defined fields take their values in the given sets.
Entities(ids, types, materials, diameters, schedules, pages) ==
    {a @@ b @@ c @@ d @@ e @@ g :
        a \in OptField("id", ids), b \in OptField("type", types),
        c \in OptField("material", materials), d \in OptField("diameter", diameters),
        e \in OptField("schedule", schedules), g \in OptField("location_page", pages)}

RawMaterials == {<<"C", "u">>, <<"c", "u", "-">>, <<"P", "V", "C", "-", "4", "0">>}

RawDiameters == {PyStr(<<"1", "-", "1", "/", "2", "\"">>), PyStr(<<"3", "/", "4">>), PyNum(2, 1), PyStr(<<"x">>)}

RawPages == {PyInt(5), PyStr(<<" ", "6", " ">>), PyNum(13, 2), PyStr(<<"p">>)}

RawEntities == Entities({"e1"}, {"pipe"}, RawMaterials, RawDiameters, {"40"}, RawPages)

InitNormalize ==
    /\ \/ call \in [op : {"normalize_material"}, material : MaterialInputs]
       \/ call \in [op : {"normalize_entity"}, entity : RawEntities]
    /\ ret = <<>>
    /\ pc = "call"
    /\ ChunksIdle

Do_normalize_material ==
    /\ pc = "call"
    /\ call.op = "normalize_material"
    /\ ret' = <<normalize_material(call.material)>>
    /\ pc' = "done"
    /\ UNCHANGED <<call, chunk_vars>>

Do_normalize_entity ==
    /\ pc = "call"
    /\ call.op = "normalize_entity"
    /\ ret' = <<normalize_entity(call.entity)>>
    /\ pc' = "done"
    /\ UNCHANGED <<call, chunk_vars>>

NextNormalize ==
    \/ Do_normalize_material
    \/ Do_normalize_entity

SpecNormalize == InitNormalize /\ [][NextNormalize]_vars

\* C6: normalization is idempotent: normalize_material(normalize_material(s))
\* = normalize_material(s) for every string s, and normalize_entity(
\* normalize_entity(e)) = normalize_entity(e) for every entity e that normalizes
\* without error.
C6_Original ==
    /\ (pc = "done" /\ call.op = "normalize_material") =>
            normalize_material(ret[1]) = ret[1]
    /\ (pc = "done" /\ call.op = "normalize_entity" /\ ~IsRaised(ret[1])) =>
            normalize_entity(ret[1]) = ret[1]

(***************************************************************************)
(* Specification of entities_match                                         *)
(***************************************************************************)
MaxPageSpread == 2

\* Normalized entities: lower-case materials, float diameters, integer pages.
NormalizedEntities ==
    Entities({"pipe_001", "pipe_002"}, {"pipe", "valve"},
             {<<"c", "u">>, <<"f", "e">>}, {PyNum(2, 1), PyNum(3, 2)}, {"40", "STD"},
             {PyInt(5 + k) : k \in 0..MaxPageSpread})

InitMatch ==
    /\ call \in [op : {"entities_match"}, entity1 : NormalizedEntities,
                 entity2 : NormalizedEntities]
    /\ ret = <<>>
    /\ pc = "call"
    /\ ChunksIdle

Do_entities_match ==
    /\ pc = "call"
    /\ call.op = "entities_match"
    /\ ret' = <<entities_match(call.entity1, call.entity2)>>
    /\ pc' = "done"
    /\ UNCHANGED <<call, chunk_vars>>

NextMatch == Do_entities_match

SpecMatch == InitMatch /\ [][NextMatch]_vars

\* Both entities define field f.
BothDefine(e1, e2, f) == f \in DOMAIN e1 /\ f \in DOMAIN e2

\* C5: entities_match(e1, e2) returns True iff (a) for each of the fields type,
\* material, diameter, schedule that both entities define the two values are
\* equal, and (b) when both define location_page the absolute page difference
\* is at most 1; a field only one side defines and id never matter.
C5_EntitiesMatchIff ==
    (pc = "done" /\ call.op = "entities_match") =>
        (ret[1] <=>
            /\ \A f \in {"type", "material", "diameter", "schedule"} :
                   BothDefine(call.entity1, call.entity2, f) =>
                       call.entity1[f] = call.entity2[f]
            /\ BothDefine(call.entity1, call.entity2, "location_page") =>
                   LET d == call.entity1["location_page"].val.num
                                - call.entity2["location_page"].val.num
                   IN  -1 <= d /\ d <= 1)

\* C5 witness: two entities with different ids, pages 5 and 6, equal key
\* fields and a schedule only the first defines match.
C5_Witness ==
    /\ pc = "done"
    /\ call.op = "entities_match"
    /\ BothDefine(call.entity1, call.entity2, "id")
    /\ call.entity1["id"] # call.entity2["id"]
    /\ BothDefine(call.entity1, call.entity2, "material")
    /\ "schedule" \in DOMAIN call.entity1
    /\ "schedule" \notin DOMAIN call.entity2
    /\ BothDefine(call.entity1, call.entity2, "location_page")
    /\ call.entity1["location_page"] = PyInt(5)
    /\ call.entity2["location_page"] = PyInt(6)
    /\ ret[1] = TRUE

(***************************************************************************)
(* Specification of score_entities                                         *)
(***************************************************************************)
MaxEntities == 2

\* Raw entities: 'Cu' and 'cu' normalize to one material, pages 5 and ' 6 ' are
\* within the tolerance; one entity has a diameter that cannot be normalized
\* and one defines no field.
ScoreEntities ==
    {("type" :> "pipe") @@ ("material" :> m) @@ ("location_page" :> p) :
        m \in {<<"C", "u">>, <<"c", "u">>, <<"F", "e">>},
        p \in {PyInt(5), PyStr(<<" ", "6", " ">>)}}
    \cup {"diameter" :> PyStr(<<"x">>), "diameter" :> PyStr(<<"n", "a", "n">>)}
    \cup {EmptyEntity}

InitScore ==
    /\ call \in [op : {"score_entities"},
                 predicted : SeqsUpTo(ScoreEntities, MaxEntities),
                 gold_standard : SeqsUpTo(ScoreEntities, MaxEntities)]
    /\ ret = <<>>
    /\ pc = "call"
    /\ ChunksIdle

Do_score_entities ==
    /\ pc = "call"
    /\ call.op = "score_entities"
    /\ ret' = <<score_entities(call.predicted, call.gold_standard)>>
    /\ pc' = "done"
    /\ UNCHANGED <<call, chunk_vars>>

NextScore == Do_score_entities

SpecScore == InitScore /\ [][NextScore]_vars

\* score_entities has returned scores for two non-empty lists.
ScoredNonEmpty ==
    /\ pc = "done"
    /\ call.op = "score_entities"
    /\ call.predicted # <<>>
    /\ call.gold_standard # <<>>
    /\ ~IsRaised(ret[1])

\* The predicted entities for which at least one gold entity matches after
\* normalization.
MatchedPredicted ==
    {i \in 1..Len(call.predicted) :
        \E j \in 1..Len(call.gold_standard) :
            entities_match(normalize_entity(call.predicted[i]),
                           normalize_entity(call.gold_standard[j]))}

\* C4: for non-empty lists, true_positives is the number of predicted entities
\* for which at least one gold entity matches after normalization (a gold entity
\* stays available after a match), precision = true_positives / len(predicted),
\* recall = true_positives / len(gold), f1 = 2 * precision * recall /
\* (precision + recall), and f1 = 0.0 when precision + recall is 0.
C4_ScoresFromExistentialMatches ==
    ScoredNonEmpty =>
        LET tp == Cardinality(MatchedPredicted)
            p == ret[1].precision
            r == ret[1].recall
            f == ret[1].f1_score
        IN  /\ p.num * Len(call.predicted) = tp * p.den
            /\ r.num * Len(call.gold_standard) = tp * r.den
            /\ IF tp = 0
               THEN f.num = 0
               ELSE f.num * (p.num * r.den + r.num * p.den) * (p.den * r.den)
                        = 2 * p.num * r.num * f.den * (p.den * r.den)

\* C4 witness: two predicted entities both match the first gold entity and none
\* matches the second, and both count as true positives.
C4_Witness ==
    /\ ScoredNonEmpty
    /\ Len(call.predicted) = 2
    /\ Len(call.gold_standard) = 2
    /\ \A i \in 1..2 :
           /\ entities_match(normalize_entity(call.predicted[i]),
                             normalize_entity(call.gold_standard[1]))
           /\ ~entities_match(normalize_entity(call.predicted[i]),
                              normalize_entity(call.gold_standard[2]))
    /\ ret[1].precision = RatInt(1)
    /\ ret[1].recall = RatInt(1)

(***************************************************************************)
(* compare_chunks                                                          *)
(*                                                                         *)
(* A chunk is a record [title, start_page, end_page].  validate_json_data  *)
(* checks the chunks against a JSON schema kept outside the engine; the    *)
(* chunks drawn here are well-shaped, so it passes.                        *)
(***************************************************************************)
\* default of the parameter iou_threshold
DefaultIoUThreshold == Rat(7, 10)

\* 'aabb' fuzzy-matches 'aaaa' and 'bbbb', which do not match each other;
\* 'AAAA' equals 'aaaa' after lower-casing.
ChunkTitles == {<<"a", "a", "a", "a">>, <<"A", "A", "A", "A">>,
                <<"a", "a", "b", "b">>, <<"b", "b", "b", "b">>}

\* The titles of test_enhanced_chunk_comparison, and 'Material Specs' in
\* lower case between spaces.
FirePipingSystemOverview ==
    <<"F", "i", "r", "e", " ", "P", "i", "p", "i", "n", "g", " ",
      "S", "y", "s", "t", "e", "m", " ", "O", "v", "e", "r", "v", "i", "e", "w">>

AbbrevTitles ==
    {FirePipingSystemOverview, MaterialSpecs, MaterialSpecifications,
     <<" ">> \o StrLower(MaterialSpecs) \o <<" ">>}

\* An empty title, a whitespace-only title and a long title.
BlankTitles == {<<>>, <<" ">>, MaterialSpecifications}

\* fuzzy_title_match with the default max_distance on every pair of chunk
\* titles, evaluated once (@@ makes the table an explicit function).
FuzzyTitleTable ==
    [t \in (ChunkTitles \X ChunkTitles) \cup (AbbrevTitles \X AbbrevTitles)
              \cup (BlankTitles \X BlankTitles) |->
        fuzzy_title_match(t[1], t[2], DefaultMaxDistance)] @@ <<>>

\* title.lower().strip() of every chunk title, evaluated once.
LowerTitleTable ==
    [t \in ChunkTitles \cup AbbrevTitles \cup BlankTitles |-> StrStrip(StrLower(t))] @@ <<>>

\* TitleMatch using the fuzzy test whatever use_fuzzy_matching says.
TitleMatch_AlwaysFuzzy(pred_chunk, gold_chunk, fuzzy) ==
    FuzzyTitleTable[<<pred_chunk.title, gold_chunk.title>>]

\* The title test of the inner loop.
TitleMatch(pred_chunk, gold_chunk, fuzzy) ==
    IF fuzzy
    THEN FuzzyTitleTable[<<pred_chunk.title, gold_chunk.title>>]
    ELSE LowerTitleTable[pred_chunk.title] = LowerTitleTable[gold_chunk.title]

\* IsBetter keeping the first candidate that reaches the threshold.
IsBetter_FirstQualifying(iou, threshold, best_score) ==
    RatLeq(threshold, iou) /\ RatLt(RatInt(0), iou) /\ best_score = RatInt(0)

\* IsBetter accepting any overlap when the call allows a page tolerance.
IsBetter_WithPageSlack(iou, threshold, best_score) ==
    (RatLeq(threshold, iou) \/ call.page_tolerance > 0) /\ RatLt(best_score, iou)

\* IsBetter without the threshold.
IsBetter_IgnoresThreshold(iou, threshold, best_score) == RatLt(best_score, iou)

\* IsBetter letting a later candidate of equal IoU replace the current best.
IsBetter_LastTieWins(iou, threshold, best_score) ==
    RatLeq(threshold, iou) /\ RatLt(RatInt(0), iou) /\ RatLeq(best_score, iou)

\* iou >= iou_threshold and iou > best_score
IsBetter(iou, threshold, best_score) == RatLeq(threshold, iou) /\ RatLt(best_score, iou)

\* The inner loop over the pool from position j on.  best_index is 0 while
\* best_match is None; best_score starts at 0.0.
RECURSIVE ScanPool(_, _, _, _, _, _, _)
ScanPool(pred_chunk, pool, fuzzy, threshold, j, best_index, best_score) ==
    IF j > Len(pool)
    THEN [index |-> best_index, score |-> best_score]
    ELSE LET iou == calculate_iou_advanced(pred_chunk, pool[j]).iou
         IN  IF TitleMatch(pred_chunk, pool[j], fuzzy) /\ IsBetter(iou, threshold, best_score)
             THEN ScanPool(pred_chunk, pool, fuzzy, threshold, j + 1, j, iou)
             ELSE ScanPool(pred_chunk, pool, fuzzy, threshold, j + 1, best_index, best_score)

\* ListRemove taking out every element equal to x.
ListRemove_AllEqual(list, x) == SelectSeq(list, LAMBDA y : y # x)

\* list.remove(x): the first element equal to x is removed.
ListRemove(list, x) ==
    RemoveAt(list, CHOOSE i \in 1..Len(list) :
                       list[i] = x /\ \A k \in 1..(i - 1) : list[k] # x)

\* CallersGold for a pool that is the caller's list itself, not a copy of it.
CallersGold_PoolIsAlias(gold, pool, best_match) == ListRemove(pool, best_match)

\* The caller's gold list after unmatched_gold.remove(best_match): the pool is
\* a copy made by gold_standard.copy(), so the caller's list is as it was.
CallersGold(gold, pool, best_match) == gold

\* The chunk count check, then the copy of the gold list into the pool.
CheckCount ==
    /\ pc = "start"
    /\ IF Len(predicted) # Len(gold_standard)
       THEN /\ ret' = <<FALSE>>
            /\ pc' = "done"
            /\ UNCHANGED unmatched_gold
       ELSE /\ unmatched_gold' = gold_standard
            /\ pc' = "match"
            /\ UNCHANGED ret
    /\ UNCHANGED <<call, predicted, gold_standard, iou_threshold, use_fuzzy_matching,
                   match_details, idx, failed_on>>

\* One iteration of the loop over predicted: the best pool chunk is consumed
\* and recorded, or the call returns False.
MatchChunk ==
    /\ pc = "match"
    /\ idx < Len(predicted)
    /\ \E pred_chunk \in {predicted[idx + 1]} :
       \E best \in {ScanPool(pred_chunk, unmatched_gold, use_fuzzy_matching,
                             iou_threshold, 1, 0, RatInt(0))} :
           IF best.index # 0
           THEN \E best_match \in {unmatched_gold[best.index]} :
                /\ unmatched_gold' = ListRemove(unmatched_gold, best_match)
                /\ gold_standard' = CallersGold(gold_standard, unmatched_gold, best_match)
                /\ match_details' = Append(match_details,
                        [predicted |-> pred_chunk.title,
                         matched |-> best_match.title,
                         iou |-> best.score,
                         metrics |-> calculate_iou_advanced(pred_chunk, best_match)])
                /\ idx' = idx + 1
                /\ UNCHANGED <<ret, pc, failed_on>>
           ELSE /\ failed_on' = <<pred_chunk>>
                /\ ret' = <<FALSE>>
                /\ pc' = "done"
                /\ UNCHANGED <<gold_standard, unmatched_gold, match_details, idx>>
    /\ UNCHANGED <<call, predicted, iou_threshold, use_fuzzy_matching>>

\* After the loop: gold chunks left in the pool make the call return False.
FinishChunks ==
    /\ pc = "match"
    /\ idx = Len(predicted)
    /\ ret' = <<unmatched_gold = <<>> >>
    /\ pc' = "done"
    /\ UNCHANGED <<call, chunk_vars>>

NextChunks ==
    \/ CheckCount
    \/ MatchChunk
    \/ FinishChunks

(***************************************************************************)
(* Specification of compare_chunks                                         *)
(***************************************************************************)
MaxChunks == 2

MaxChunkPage == 2

\* Chunks over the pages 1..n, those with start_page > end_page included.
ChunksOver(n) == [title : ChunkTitles, start_page : 1..n, end_page : 1..n]

Thresholds == {RatInt(0), Rat(1, 2), DefaultIoUThreshold}

DefaultPageTolerance == 1

\* The state at the call of compare_chunks with the given page_tolerance, the
\* other arguments being in their variables.
ChunksCalledWith(page_tolerance) ==
    /\ call = [op |-> "compare_chunks", page_tolerance |-> page_tolerance]
    /\ ret = <<>>
    /\ pc = "start"
    /\ unmatched_gold = <<>>
    /\ match_details = <<>>
    /\ idx = 0
    /\ failed_on = <<>>

\* The state at a call of compare_chunks that leaves page_tolerance out.
ChunksCalled == ChunksCalledWith(DefaultPageTolerance)

InitChunks ==
    /\ predicted \in SeqsUpTo(ChunksOver(MaxChunkPage), MaxChunks)
    /\ gold_standard \in SeqsUpTo(ChunksOver(MaxChunkPage), MaxChunks)
    /\ iou_threshold \in Thresholds
    /\ use_fuzzy_matching \in BOOLEAN
    /\ ChunksCalled

SpecChunks == InitChunks /\ [][NextChunks]_vars

(***************************************************************************)
(* Specification of compare_chunks(X, X)                                   *)
(***************************************************************************)
MaxSelfChunks == 3

\* The chunks of a list have start_page <= end_page and pairwise distinct titles.
ValidDistinct(X) ==
    /\ \A i \in 1..Len(X) : X[i].start_page <= X[i].end_page
    /\ \A i, j \in 1..Len(X) : i # j => X[i].title # X[j].title

\* The chunks a valid list is made of.
ValidChunks == {c \in ChunksOver(MaxChunkPage) : c.start_page <= c.end_page}

InitSelf ==
    /\ predicted \in {X \in SeqsUpTo(ValidChunks, MaxSelfChunks) : ValidDistinct(X)}
    /\ gold_standard = predicted
    /\ iou_threshold \in Thresholds
    /\ use_fuzzy_matching \in BOOLEAN
    /\ ChunksCalled

SpecSelf == InitSelf /\ [][NextChunks]_vars

(***************************************************************************)
(* Claims about compare_chunks                                             *)
(***************************************************************************)
ChunksDone == pc = "done" /\ call.op = "compare_chunks"

\* The title test in force between a predicted and a gold chunk.
TitleTestInForce(p, g) ==
    IF use_fuzzy_matching
    THEN fuzzy_title_match(p.title, g.title, DefaultMaxDistance)
    ELSE StrStrip(StrLower(p.title)) = StrStrip(StrLower(g.title))

\* The pages two chunks share, and the pages they cover together.
SharedPages(p, g) ==
    Cardinality((p.start_page..p.end_page) \cap (g.start_page..g.end_page))

CoveredPages(p, g) ==
    (p.end_page - p.start_page + 1) + (g.end_page - g.start_page + 1) - SharedPages(p, g)

\* IoU(p, g) >= threshold, the IoU being 0 when the chunks cover no page.
IoUAtLeast(p, g, threshold) ==
    IF CoveredPages(p, g) > 0
    THEN SharedPages(p, g) * threshold.den >= threshold.num * CoveredPages(p, g)
    ELSE threshold.num <= 0

\* IoU(p, g) >= IoU(p, h)
IoUNotBelow(p, g, h) ==
    LET sg == IF CoveredPages(p, g) > 0 THEN SharedPages(p, g) ELSE 0
        cg == IF CoveredPages(p, g) > 0 THEN CoveredPages(p, g) ELSE 1
        sh == IF CoveredPages(p, h) > 0 THEN SharedPages(p, h) ELSE 0
        ch == IF CoveredPages(p, h) > 0 THEN CoveredPages(p, h) ELSE 1
    IN  sg * ch >= sh * cg

\* The one-to-one assignments of n predicted chunks to n gold chunks.
Pairings(n) == {f \in [1..n -> 1..n] : \A i, j \in 1..n : i # j => f[i] # f[j]}

\* Every pair of the pairing passes the title test and has IoU >= iou_threshold.
GoodPairing(f) ==
    \A i \in 1..Len(predicted) :
        /\ TitleTestInForce(predicted[i], gold_standard[f[i]])
        /\ IoUAtLeast(predicted[i], gold_standard[f[i]], iou_threshold)

\* C1: whenever compare_chunks returns True, predicted and gold have the same
\* length and a one-to-one pairing covers every predicted and every gold chunk,
\* each pair passing the title test in force with IoU >= iou_threshold.
C1_TrueMeansOneToOnePairing ==
    (ChunksDone /\ ret = <<TRUE>>) =>
        /\ Len(predicted) = Len(gold_standard)
        /\ \E f \in Pairings(Len(predicted)) : GoodPairing(f)

\* C1 witness: a call that returned True for two chunks whose only good
\* pairing crosses the input order.
C1_Witness ==
    /\ ChunksDone
    /\ ret = <<TRUE>>
    /\ Len(predicted) = 2
    /\ iou_threshold = DefaultIoUThreshold
    /\ ~GoodPairing(<<1, 2>>)
    /\ GoodPairing(<<2, 1>>)

\* The pool chunks that pass the title test against the predicted chunk being
\* processed and have IoU >= iou_threshold.
Qualifying ==
    {j \in 1..Len(unmatched_gold) :
        /\ TitleTestInForce(predicted[idx + 1], unmatched_gold[j])
        /\ IoUAtLeast(predicted[idx + 1], unmatched_gold[j], iou_threshold)}

\* C2 as claimed: for each predicted chunk, in input order, the winner is a pool
\* chunk that passes the title test and has the highest IoU among those with IoU
\* >= iou_threshold, and the call fails on that chunk only if no title-matching
\* pool chunk has IoU >= iou_threshold; for every iou_threshold in [0, 1].
C2_Original ==
    [][(pc = "match" /\ idx < Len(predicted)) =>
          IF Qualifying = {}
          THEN ret' = <<FALSE>> /\ pc' = "done"
          ELSE /\ idx' = idx + 1
               /\ \E j \in Qualifying :
                      /\ \A k \in Qualifying :
                             IoUNotBelow(predicted[idx + 1], unmatched_gold[j],
                                         unmatched_gold[k])
                      /\ unmatched_gold' = RemoveAt(unmatched_gold, j)]_vars

\* C3: for any list X of chunks with start_page <= end_page and pairwise
\* distinct titles, compare_chunks(X, X) returns True with the default
\* iou_threshold, with fuzzy matching on and with it off.
C3_SelfMatch ==
    (/\ ChunksDone
     /\ gold_standard = predicted
     /\ ValidDistinct(predicted)
     /\ iou_threshold = DefaultIoUThreshold) => ret = <<TRUE>>

\* C3 witness: three chunks on the same pages whose titles fuzzy-match each
\* other, compared with themselves with fuzzy matching on.
C3_Witness ==
    /\ ChunksDone
    /\ gold_standard = predicted
    /\ ValidDistinct(predicted)
    /\ iou_threshold = DefaultIoUThreshold
    /\ use_fuzzy_matching
    /\ Len(predicted) = 3
    /\ \A i \in 1..3 : predicted[i].start_page = predicted[1].start_page
                          /\ predicted[i].end_page = predicted[1].end_page
    /\ fuzzy_title_match(predicted[1].title, predicted[2].title, DefaultMaxDistance)
    /\ fuzzy_title_match(predicted[2].title, predicted[3].title, DefaultMaxDistance)
    /\ ret = <<TRUE>>


(***************************************************************************)
(* Claims about normalize_material                                         *)
(***************************************************************************)
\* The lower-case letters and the digits.
LowerAlnum == {UpperToLower[c] : c \in DOMAIN UpperToLower} \cup DOMAIN Digits

\* C11: normalize_material returns, for every input string, a string of
\* lower-case alphanumeric characters and single spaces with no leading and no
\* trailing space; the empty string maps to the empty string.
C11_Original ==
    (pc = "done" /\ call.op = "normalize_material") =>
        /\ \A i \in 1..Len(ret[1]) : ret[1][i] \in LowerAlnum \cup {" "}
        /\ \A i \in 1..(Len(ret[1]) - 1) : ~(ret[1][i] = " " /\ ret[1][i + 1] = " ")
        /\ ret[1] # <<>> => (ret[1][1] # " " /\ ret[1][Len(ret[1])] # " ")
        /\ call.material = <<>> => ret[1] = <<>>


(***************************************************************************)
(* Specification of normalize_diameter                                     *)
(***************************************************************************)
MaxDiameterLen == 4

DiameterAlphabet == {"0", "1", "2", "-", "/", ".", "\"", " ", "n", "a"}

SampleDiameters == {
    <<"1", "-", "1", "/", "2", "\"">>,
    <<"3", "/", "4">>,
    <<"2", " ", "i", "n", "c", "h">>,
    <<"4">>,
    <<"2", " ", "i", "n">>,
    <<"1", "/", "2", "/", "3">>,
    <<"1", "-", "1", "/", "0">>,
    <<"1", "2", " ", "i", "n", "c", "h", "e", "s">>,
    <<"a", "b", "c">>
}

DiameterInputs == SeqsUpTo(DiameterAlphabet, MaxDiameterLen) \cup SampleDiameters

InitDiameter ==
    /\ call \in [op : {"normalize_diameter"}, diameter : DiameterInputs]
    /\ ret = <<>>
    /\ pc = "call"
    /\ ChunksIdle

Do_normalize_diameter ==
    /\ pc = "call"
    /\ call.op = "normalize_diameter"
    /\ ret' = <<normalize_diameter(call.diameter)>>
    /\ pc' = "done"
    /\ UNCHANGED <<call, chunk_vars>>

NextDiameter == Do_normalize_diameter

SpecDiameter == InitDiameter /\ [][NextDiameter]_vars

(***************************************************************************)
(* Claims about normalize_diameter                                         *)
(***************************************************************************)
DiameterDone == pc = "done" /\ call.op = "normalize_diameter"

\* What is left of the input after stripping whitespace, quote characters and
\* the tokens 'inch' and 'in'.
Remainder ==
    StrStrip(RemoveAll(RemoveAll(RemoveAll(StrStrip(call.diameter), <<"\"">>),
                                 <<"i", "n", "c", "h">>),
                       <<"i", "n">>))

\* A plain decimal: digits with at most one decimal point, at least one digit.
IsDecimal(s) ==
    /\ \A i \in 1..Len(s) : s[i] \in DOMAIN Digits \cup {"."}
    /\ Cardinality({i \in 1..Len(s) : s[i] = "."}) <= 1
    /\ \E i \in 1..Len(s) : s[i] \in DOMAIN Digits

\* The number a plain decimal denotes.
DecimalValue(s) ==
    Rat(DigitsValue(SelectSeq(s, LAMBDA c : c # ".")),
        Pow10(IF \E i \in 1..Len(s) : s[i] = "."
              THEN Len(s) - (CHOOSE i \in 1..Len(s) : s[i] = ".")
              ELSE 0))

\* A plain decimal with an optional sign and surrounding whitespace.
IsSignedDecimal(s) ==
    \/ IsDecimal(StrStrip(s))
    \/ /\ StrStrip(s) # <<>>
       /\ Head(StrStrip(s)) \in {"+", "-"}
       /\ IsDecimal(Tail(StrStrip(s)))

IsNonZero(s) == \E i \in 1..Len(s) : s[i] \in DOMAIN Digits \ {"0"}

\* A fraction N/D: two numbers around one '/', the denominator not zero.
IsFractionOf(s, IsNumber(_)) ==
    /\ Len(SplitOn(s, "/", <<>>)) = 2
    /\ IsNumber(SplitOn(s, "/", <<>>)[1])
    /\ IsNumber(SplitOn(s, "/", <<>>)[2])
    /\ IsNonZero(SplitOn(s, "/", <<>>)[2])

\* A mixed number W-N/D: a number and a fraction around one '-'.
IsMixedOf(s, IsNumber(_)) ==
    /\ Len(SplitOn(s, "-", <<>>)) = 2
    /\ IsNumber(SplitOn(s, "-", <<>>)[1])
    /\ IsFractionOf(SplitOn(s, "-", <<>>)[2], IsNumber)

FractionValue(s) ==
    RatDiv(DecimalValue(SplitOn(s, "/", <<>>)[1]), DecimalValue(SplitOn(s, "/", <<>>)[2]))

MixedValue(s) ==
    RatAdd(DecimalValue(SplitOn(s, "-", <<>>)[1]), FractionValue(SplitOn(s, "-", <<>>)[2]))

\* The remainder is a mixed number, a fraction or a plain decimal, the numbers
\* read as leniently as float() reads them (sign, surrounding whitespace).
Parseable ==
    \/ IsMixedOf(Remainder, IsSignedDecimal)
    \/ IsFractionOf(Remainder, IsSignedDecimal)
    \/ IsSignedDecimal(Remainder)

\* The exception float() raises on a string that is not a number.
FormatError == "ValueError"

\* C12: normalize_diameter fails with the error kind FormatError, and returns
\* no value, for every input whose remainder is not a mixed number W-N/D, a
\* fraction N/D or a plain decimal; no other error kind escapes.
C12_Original ==
    (DiameterDone /\ ~Parseable) => ret[1] = PyError(FormatError)

\* C13: for a remainder that is a mixed number W-N/D, a fraction N/D or a plain
\* decimal, normalize_diameter returns W + N/D, N/D or the decimal's value;
\* '1-1/2"' gives 1.5, '3/4' gives 0.75, '2 inch' gives 2.0 and '4' gives 4.0.
C13_DiameterValue ==
    DiameterDone =>
        /\ IsMixedOf(Remainder, IsDecimal) =>
                ret[1] = [kind |-> "num", val |-> MixedValue(Remainder)]
        /\ IsFractionOf(Remainder, IsDecimal) =>
                ret[1] = [kind |-> "num", val |-> FractionValue(Remainder)]
        /\ IsDecimal(Remainder) =>
                ret[1] = [kind |-> "num", val |-> DecimalValue(Remainder)]
        /\ call.diameter = <<"1", "-", "1", "/", "2", "\"">> => ret[1] = PyNum(3, 2)
        /\ call.diameter = <<"3", "/", "4">> => ret[1] = PyNum(3, 4)
        /\ call.diameter = <<"2", " ", "i", "n", "c", "h">> => ret[1] = PyNum(2, 1)
        /\ call.diameter = <<"4">> => ret[1] = PyNum(4, 1)

C13_Witness ==
    /\ DiameterDone
    /\ call.diameter = <<"1", "-", "1", "/", "2", "\"">>
    /\ IsMixedOf(Remainder, IsDecimal)
    /\ ret[1] = PyNum(3, 2)


(***************************************************************************)
(* validate_chunk_continuity                                               *)
(*                                                                         *)
(* An issue is the record of what its message is formatted from: the kind  *)
(* of the message and the titles and numbers interpolated into it.         *)
(***************************************************************************)
\* The stable insertion of chunk into a list sorted by start_page: behind every
\* chunk whose start_page is not larger.
RECURSIVE InsertSorted(_, _)
InsertSorted(sorted_chunks, chunk) ==
    IF sorted_chunks = <<>> THEN <<chunk>>
    ELSE IF Head(sorted_chunks).start_page <= chunk.start_page
         THEN <<Head(sorted_chunks)>> \o InsertSorted(Tail(sorted_chunks), chunk)
         ELSE <<chunk>> \o sorted_chunks

\* sorted(chunks, key=lambda x: x['start_page']): a new list, stably sorted.
RECURSIVE SortedByStart(_)
SortedByStart(chunks) ==
    IF chunks = <<>> THEN <<>>
    ELSE InsertSorted(SortedByStart(SubSeq(chunks, 1, Len(chunks) - 1)),
                      chunks[Len(chunks)])

LargeGapLimit == 10

\* IsLargeGap reporting a gap of exactly the limit as well.
IsLargeGap_Inclusive(gap) == gap >= LargeGapLimit

IsLargeGap(gap) == gap > LargeGapLimit

\* The issue of the start <= end check of one chunk, if any.
InvertedIssue(chunk) ==
    IF chunk.start_page > chunk.end_page
    THEN <<[kind |-> "start_page > end_page", title |-> chunk.title,
            start_page |-> chunk.start_page, end_page |-> chunk.end_page]>>
    ELSE <<>>

\* GapIssue without the overlap branch.
GapIssue_NoOverlapIssue(prev, chunk, gap) ==
    IF IsLargeGap(gap)
    THEN <<[kind |-> "Large gap", pages |-> gap,
            prev_title |-> prev.title, title |-> chunk.title]>>
    ELSE <<>>

\* The issue of the gap check between a chunk and the one before it, if any.
GapIssue(prev, chunk, gap) ==
    IF IsLargeGap(gap)
    THEN <<[kind |-> "Large gap", pages |-> gap,
            prev_title |-> prev.title, title |-> chunk.title]>>
    ELSE IF gap < 0
    THEN <<[kind |-> "Overlapping chunks", pages |-> Abs(gap),
            prev_title |-> prev.title, title |-> chunk.title]>>
    ELSE <<>>

\* The issues appended by the loop from position i of sorted_chunks on.
RECURSIVE IssuesFrom(_, _)
IssuesFrom(sorted_chunks, i) ==
    IF i > Len(sorted_chunks) THEN <<>>
    ELSE InvertedIssue(sorted_chunks[i])
         \o (IF i > 1
             THEN GapIssue(sorted_chunks[i - 1], sorted_chunks[i],
                           sorted_chunks[i].start_page - sorted_chunks[i - 1].end_page - 1)
             ELSE <<>>)
         \o IssuesFrom(sorted_chunks, i + 1)

ContinuityResult(issues) == [is_valid |-> Len(issues) = 0, issues |-> issues]

validate_chunk_continuity(chunks) ==
    IF chunks = <<>> THEN [is_valid |-> TRUE, issues |-> <<>>]
    ELSE ContinuityResult(IssuesFrom(SortedByStart(chunks), 1))

(***************************************************************************)
(* Specification of validate_chunk_continuity: predicted holds the caller's *)
(* list, call.chunks its value when the call was made.                     *)
(***************************************************************************)
MaxContinuityChunks == 3

\* Pages on both sides of the gap limit: from end page 1, start page 12 is a
\* gap of 10 and start page 13 a gap of 11.
ContinuityPages == {1, 12, 13}

ContinuityChunks ==
    [title : {<<"a">>, <<"b">>}, start_page : ContinuityPages, end_page : ContinuityPages]

InitContinuity ==
    /\ call \in [op : {"validate_chunk_continuity"},
                 chunks : SeqsUpTo(ContinuityChunks, MaxContinuityChunks)]
    /\ ret = <<>>
    /\ pc = "call"
    /\ predicted = call.chunks
    /\ gold_standard = <<>>
    /\ iou_threshold = [num |-> 0, den |-> 1]
    /\ use_fuzzy_matching = TRUE
    /\ unmatched_gold = <<>>
    /\ match_details = <<>>
    /\ idx = 0
    /\ failed_on = <<>>

Do_validate_chunk_continuity ==
    /\ pc = "call"
    /\ call.op = "validate_chunk_continuity"
    /\ ret' = <<validate_chunk_continuity(predicted)>>
    /\ pc' = "done"
    /\ UNCHANGED <<call, chunk_vars>>

NextContinuity == Do_validate_chunk_continuity

SpecContinuity == InitContinuity /\ [][NextContinuity]_vars

(***************************************************************************)
(* Claims about validate_chunk_continuity                                  *)
(***************************************************************************)
ContinuityDone == pc = "done" /\ call.op = "validate_chunk_continuity"

\* The place of call.chunks[i] in sorted order: by start_page, chunks of equal
\* start_page in their original order.
SortedPlace(i) ==
    1 + Cardinality({j \in 1..Len(call.chunks) :
                       \/ call.chunks[j].start_page < call.chunks[i].start_page
                       \/ /\ call.chunks[j].start_page = call.chunks[i].start_page
                          /\ j < i})

InSortedOrder ==
    [r \in 1..Len(call.chunks) |->
        call.chunks[CHOOSE i \in 1..Len(call.chunks) : SortedPlace(i) = r]] @@ <<>>

GapBefore(i) == InSortedOrder[i].start_page - InSortedOrder[i - 1].end_page - 1

IssuesOfKind(kind) == {k \in 1..Len(ret[1].issues) : ret[1].issues[k].kind = kind}

\* C14: validate_chunk_continuity leaves the caller's list as it was and
\* reports one issue for each chunk with start_page > end_page and, for each
\* consecutive pair in sorted order, a large-gap issue when gap > 10 and an
\* overlap issue when gap < 0, and nothing else; is_valid is True exactly when
\* there are no issues, and the empty list gives (True, []).
C14_ContinuityIssues ==
    ContinuityDone =>
        /\ predicted = call.chunks
        /\ Cardinality(IssuesOfKind("start_page > end_page"))
             = Cardinality({i \in 1..Len(call.chunks) :
                              call.chunks[i].start_page > call.chunks[i].end_page})
        /\ Cardinality(IssuesOfKind("Large gap"))
             = Cardinality({i \in 2..Len(call.chunks) : GapBefore(i) > 10})
        /\ Cardinality(IssuesOfKind("Overlapping chunks"))
             = Cardinality({i \in 2..Len(call.chunks) : GapBefore(i) < 0})
        /\ \A i \in 2..Len(call.chunks) :
             /\ GapBefore(i) > 10 =>
                  \E k \in IssuesOfKind("Large gap") :
                     /\ ret[1].issues[k].pages = GapBefore(i)
                     /\ ret[1].issues[k].prev_title = InSortedOrder[i - 1].title
                     /\ ret[1].issues[k].title = InSortedOrder[i].title
             /\ GapBefore(i) < 0 =>
                  \E k \in IssuesOfKind("Overlapping chunks") :
                     /\ ret[1].issues[k].pages = -GapBefore(i)
                     /\ ret[1].issues[k].prev_title = InSortedOrder[i - 1].title
                     /\ ret[1].issues[k].title = InSortedOrder[i].title
        /\ Len(ret[1].issues)
             = Cardinality(IssuesOfKind("start_page > end_page"))
               + Cardinality(IssuesOfKind("Large gap"))
               + Cardinality(IssuesOfKind("Overlapping chunks"))
        /\ ret[1].is_valid = (ret[1].issues = <<>>)
        /\ call.chunks = <<>> => ret[1] = [is_valid |-> TRUE, issues |-> <<>>]

\* An unsorted list with a gap of exactly 10 (not reported), an overlap and a
\* chunk with start_page > end_page.
C14_Witness ==
    /\ ContinuityDone
    /\ Len(call.chunks) = 3
    /\ call.chunks[1].start_page > call.chunks[2].start_page
    /\ \E i \in 2..3 : GapBefore(i) = 10
    /\ \E i \in 2..3 : GapBefore(i) < 0
    /\ Cardinality(IssuesOfKind("start_page > end_page")) = 1
    /\ Cardinality(IssuesOfKind("Large gap")) = 0
    /\ ~ret[1].is_valid


(***************************************************************************)
(* Further claims about compare_chunks                                     *)
(***************************************************************************)
\* The qualifying pool chunks whose IoU with the predicted chunk being
\* processed is the highest among the qualifying ones.
TopQualifying ==
    {j \in Qualifying :
        \A k \in Qualifying :
            IoUNotBelow(predicted[idx + 1], unmatched_gold[j], unmatched_gold[k])}

FirstOf(S) == CHOOSE j \in S : \A k \in S : j <= k

\* C15 as claimed: when several title-matching pool chunks have exactly the
\* same highest qualifying IoU for a predicted chunk, the first of them in pool
\* order is chosen and consumed.
C15_Original ==
    [][(pc = "match" /\ idx < Len(predicted) /\ Cardinality(TopQualifying) >= 2) =>
          /\ idx' = idx + 1
          /\ unmatched_gold' = RemoveAt(unmatched_gold, FirstOf(TopQualifying))
          /\ match_details'[idx + 1].matched = unmatched_gold[FirstOf(TopQualifying)].title]_vars


\* C16: compare_chunks never changes its inputs: at every step of every call,
\* whatever it returns and wherever it fails, the caller's predicted and gold
\* lists hold the same chunks in the same order; only the pool is consumed.
C16_InputsUnchanged ==
    [][call.op = "compare_chunks" =>
          /\ predicted' = predicted
          /\ gold_standard' = gold_standard]_vars

\* C16 witness: a call that consumed a gold chunk from the pool and then
\* failed on the second predicted chunk.
C16_Witness ==
    /\ ChunksDone
    /\ ret = <<FALSE>>
    /\ Len(gold_standard) = 2
    /\ Len(unmatched_gold) = 1
    /\ Len(match_details) = 1
    /\ failed_on = <<predicted[2]>>


(***************************************************************************)
(* Specification of compare_chunks on the titles of                        *)
(* test_enhanced_chunk_comparison                                          *)
(***************************************************************************)
MaxAbbrevChunks == 2

\* The two page ranges of the test: 1-3 and 4-6.
AbbrevChunks ==
    {[title |-> t, start_page |-> r[1], end_page |-> r[2]] :
        t \in AbbrevTitles, r \in {<<1, 3>>, <<4, 6>>}}

InitAbbrev ==
    /\ predicted \in SeqsUpTo(AbbrevChunks, MaxAbbrevChunks)
    /\ gold_standard \in SeqsUpTo(AbbrevChunks, MaxAbbrevChunks)
    /\ iou_threshold = DefaultIoUThreshold
    /\ use_fuzzy_matching \in BOOLEAN
    /\ ChunksCalled

SpecAbbrev == InitAbbrev /\ [][NextChunks]_vars

AbbrevPredicted ==
    <<[title |-> FirePipingSystemOverview, start_page |-> 1, end_page |-> 3],
      [title |-> MaterialSpecs, start_page |-> 4, end_page |-> 6]>>

AbbrevGold ==
    <<[title |-> FirePipingSystemOverview, start_page |-> 1, end_page |-> 3],
      [title |-> MaterialSpecifications, start_page |-> 4, end_page |-> 6]>>

\* C17: with use_fuzzy_matching=False a gold chunk is matched to a predicted
\* chunk only when the two titles are equal after lower-casing and trimming, so
\* 'Material Specs' against 'Material Specifications' returns True with fuzzy
\* matching on and False with it off.
C17_ExactTitlesWhenNotFuzzy ==
    /\ ~use_fuzzy_matching =>
          \A k \in 1..Len(match_details) :
              StrStrip(StrLower(match_details[k].predicted))
                  = StrStrip(StrLower(match_details[k].matched))
    /\ (ChunksDone /\ predicted = AbbrevPredicted /\ gold_standard = AbbrevGold) =>
          ret = <<use_fuzzy_matching>>

\* C17 witness: the call of the test with fuzzy matching off, failed on
\* 'Material Specs' after matching the first chunk.
C17_Witness ==
    /\ ChunksDone
    /\ ~use_fuzzy_matching
    /\ predicted = AbbrevPredicted
    /\ gold_standard = AbbrevGold
    /\ Len(match_details) = 1
    /\ failed_on = <<predicted[2]>>
    /\ ret = <<FALSE>>


(***************************************************************************)
(* Specification of compare_chunks for every page_tolerance                *)
(***************************************************************************)
MaxPageTolerance == 2

MaxToleranceChunks == 2

\* Chunks on the pages 1 and 2 under two titles that fuzzy-match.
ToleranceChunks ==
    {[title |-> t, start_page |-> r[1], end_page |-> r[2]] :
        t \in {<<"a", "a", "a", "a">>, <<"a", "a", "b", "b">>},
        r \in {<<1, 1>>, <<1, 2>>}}

InitTolerance ==
    /\ predicted \in SeqsUpTo(ToleranceChunks, MaxToleranceChunks)
    /\ gold_standard \in SeqsUpTo(ToleranceChunks, MaxToleranceChunks)
    /\ iou_threshold \in {Rat(1, 2), DefaultIoUThreshold}
    /\ use_fuzzy_matching \in BOOLEAN
    /\ \E page_tolerance \in 0..MaxPageTolerance : ChunksCalledWith(page_tolerance)

SpecTolerance == InitTolerance /\ [][NextChunks]_vars

\* The pool chunks a predicted chunk can take: those that pass the title test
\* with an IoU that is positive and >= iou_threshold.
Takeable(p, pool) ==
    {j \in 1..Len(pool) :
        /\ TitleTestInForce(p, pool[j])
        /\ IoUAtLeast(p, pool[j], iou_threshold)
        /\ SharedPages(p, pool[j]) > 0}

\* The takeable pool chunk of highest IoU, the first one among equals.
BestTakeable(p, pool) ==
    FirstOf({j \in Takeable(p, pool) :
                \A k \in Takeable(p, pool) : IoUNotBelow(p, pool[j], pool[k])})

\* The result of matching the chunks of preds, in order, against the pool,
\* as a function of the chunks, iou_threshold and use_fuzzy_matching alone.
RECURSIVE GreedyMatches(_, _)
GreedyMatches(preds, pool) ==
    IF preds = <<>> THEN pool = <<>>
    ELSE IF Takeable(Head(preds), pool) = {} THEN FALSE
    ELSE GreedyMatches(Tail(preds), RemoveAt(pool, BestTakeable(Head(preds), pool)))

GreedyPredicted ==
    <<[title |-> <<"a", "a", "b", "b">>, start_page |-> 1, end_page |-> 2],
      [title |-> <<"b", "b", "b", "b">>, start_page |-> 1, end_page |-> 2]>>

GreedyGold ==
    <<[title |-> <<"a", "a", "a", "a">>, start_page |-> 1, end_page |-> 1],
      [title |-> <<"b", "b", "b", "b">>, start_page |-> 1, end_page |-> 2]>>

GreedyCall(chunks) ==
    /\ ChunksDone
    /\ predicted = chunks
    /\ gold_standard = GreedyGold
    /\ iou_threshold = Rat(1, 2)
    /\ use_fuzzy_matching

\* C19: the greedy matcher is order-dependent and not optimal: for
\* GreedyPredicted and GreedyGold at iou_threshold 0.5 a complete one-to-one
\* assignment passing the title test with IoU >= iou_threshold exists, yet
\* compare_chunks returns False for this order of the predicted list and True
\* for the reverse order of the same chunks.
C19_GreedyOrderDependent ==
    /\ GreedyCall(GreedyPredicted) =>
          /\ ret = <<FALSE>>
          /\ \E f \in Pairings(2) : GoodPairing(f)
    /\ GreedyCall(<<GreedyPredicted[2], GreedyPredicted[1]>>) =>
          /\ ret = <<TRUE>>
          /\ \E f \in Pairings(2) : GoodPairing(f)

\* C19 witness: the call on GreedyPredicted has returned False, after 'aabb'
\* took the gold chunk 'bbbb' for its higher IoU, although the reverse order
\* matches completely.
C19_Witness ==
    /\ GreedyCall(GreedyPredicted)
    /\ ret = <<FALSE>>
    /\ failed_on = <<GreedyPredicted[2]>>
    /\ match_details[1].matched = <<"b", "b", "b", "b">>
    /\ GoodPairing(<<1, 2>>)
    /\ GreedyMatches(<<GreedyPredicted[2], GreedyPredicted[1]>>, GreedyGold)


(***************************************************************************)
(* Further claims about score_entities                                     *)
(***************************************************************************)
\* C20 as claimed: for any list E of entities that normalize without error,
\* score_entities(E, E) returns precision = recall = f1 = 1.0, also when E
\* contains duplicates or is empty.
C20_Original ==
    (/\ pc = "done"
     /\ call.op = "score_entities"
     /\ call.gold_standard = call.predicted
     /\ \A i \in 1..Len(call.predicted) : ~IsRaised(normalize_entity(call.predicted[i])))
        => ret = <<Scores(RatInt(1), RatInt(1), RatInt(1))>>

\* Two normalized entities define some field in common with equal values.
FieldOverlap(entity1, entity2) ==
    \E f \in DOMAIN entity1 \cap DOMAIN entity2 : entity1[f] = entity2[f]

\* No predicted entity has a field overlap with a gold entity.
DisjointLists ==
    \A i \in 1..Len(call.predicted) : \A j \in 1..Len(call.gold_standard) :
        ~FieldOverlap(normalize_entity(call.predicted[i]),
                      normalize_entity(call.gold_standard[j]))

\* C21 as claimed: for non-empty predicted and gold lists that are disjoint (no
\* predicted entity has any field overlap with any gold entity), score_entities
\* returns precision = 0.0, recall = 0.0 and f1 = 0.0.
C21_Original ==
    (ScoredNonEmpty /\ DisjointLists)
        => ret = <<Scores(RatInt(0), RatInt(0), RatInt(0))>>

\* score_entities has returned or raised.
ScoreDone == pc = "done" /\ call.op = "score_entities"

\* C22: score_entities handles empty inputs before any normalization: both
\* lists empty gives (1.0, 1.0, 1.0) and exactly one list empty gives
\* (0.0, 0.0, 0.0), without raising, also when the non-empty list holds an
\* entity that cannot be normalized.
C22_EmptyInputsFirst ==
    ScoreDone =>
        /\ (call.predicted = <<>> /\ call.gold_standard = <<>>)
               => ret = <<Scores(RatInt(1), RatInt(1), RatInt(1))>>
        /\ ((call.predicted = <<>>) # (call.gold_standard = <<>>))
               => ret = <<Scores(RatInt(0), RatInt(0), RatInt(0))>>

\* C22 witness: the predicted list is empty and the gold list holds an entity
\* whose diameter cannot be normalized; the scores are all 0.0.
C22_Witness ==
    /\ ScoreDone
    /\ call.predicted = <<>>
    /\ \E j \in 1..Len(call.gold_standard) :
           IsRaised(normalize_entity(call.gold_standard[j]))
    /\ ret = <<Scores(RatInt(0), RatInt(0), RatInt(0))>>

(***************************************************************************)
(* Specification of calculate_levenshtein_distance                         *)
(***************************************************************************)
MaxLevenshteinLen == 3

\* Two letters and the upper case of one of them.
LevenshteinAlphabet == {"a", "b", "A"}

LevenshteinStrings == SeqsUpTo(LevenshteinAlphabet, MaxLevenshteinLen)

\* The strings of the calls that come with a third string.
MetricStrings == SeqsUpTo({"a", "b"}, MaxLevenshteinLen)

\* s1 and s2 are the arguments; s3 is a third string the call does not read,
\* kept for the triangle inequality.
InitLevenshtein ==
    /\ \/ call \in [op : {"calculate_levenshtein_distance"},
                    s1 : LevenshteinStrings, s2 : LevenshteinStrings, s3 : {<<>>}]
       \/ call \in [op : {"calculate_levenshtein_distance"},
                    s1 : MetricStrings, s2 : MetricStrings, s3 : MetricStrings]
    /\ ret = <<>>
    /\ pc = "call"
    /\ ChunksIdle

Do_calculate_levenshtein_distance ==
    /\ pc = "call"
    /\ call.op = "calculate_levenshtein_distance"
    /\ ret' = <<calculate_levenshtein_distance(call.s1, call.s2)>>
    /\ pc' = "done"
    /\ UNCHANGED <<call, chunk_vars>>

NextLevenshtein == Do_calculate_levenshtein_distance

SpecLevenshtein == InitLevenshtein /\ [][NextLevenshtein]_vars

(***************************************************************************)
(* Claims about calculate_levenshtein_distance                             *)
(***************************************************************************)
LevenshteinDone == pc = "done" /\ call.op = "calculate_levenshtein_distance"

\* y comes from x by one insertion, one deletion or one substitution.
OneEdit(x, y) ==
    \/ /\ Len(y) = Len(x)
       /\ Cardinality({i \in 1..Len(x) : x[i] # y[i]}) = 1
    \/ /\ Len(y) = Len(x) + 1
       /\ \E i \in 1..Len(y) : RemoveAt(y, i) = x
    \/ /\ Len(x) = Len(y) + 1
       /\ \E i \in 1..Len(x) : RemoveAt(x, i) = y

\* The strings one edit away from each string.  A shortest sequence of edits
\* from a to b needs no string longer than the longer of a and b and no
\* character outside them.
EditNeighbours ==
    [x \in LevenshteinStrings |-> {y \in LevenshteinStrings : OneEdit(x, y)}] @@ <<>>

\* The least number of edits that lead from a string of S to b, counting from
\* k: S holds the strings k edits or fewer away from the start.
RECURSIVE EditsFrom(_, _, _)
EditsFrom(S, b, k) ==
    IF b \in S THEN k
    ELSE EditsFrom(S \cup UNION {EditNeighbours[x] : x \in S}, b, k + 1)

EditDistance(a, b) == EditsFrom({a}, b, 0)

\* C23: calculate_levenshtein_distance(a, b) is the classic edit distance, the
\* minimum number of single-character insertions, deletions and substitutions
\* (cost 1 each, case-sensitive) that turn a into b, empty strings and either
\* argument being the longer one included.
C23_ClassicEditDistance ==
    LevenshteinDone => ret = <<EditDistance(call.s1, call.s2)>>

\* C23 witness: the first argument is the shorter one, and the distance takes
\* an insertion, a substitution and a character kept.
C23_Witness ==
    /\ LevenshteinDone
    /\ Len(call.s1) < Len(call.s2)
    /\ ret[1] > Len(call.s2) - Len(call.s1)
    /\ ret[1] < Len(call.s2)
    /\ \E i \in 1..Len(call.s1) : call.s1[i] = "a" /\ call.s2[i] = "A"

\* C24: calculate_levenshtein_distance obeys the metric laws: d(a,b) >= 0,
\* d(a,a) = 0, d(a,b) = d(b,a) and d(a,c) <= d(a,b) + d(b,c).
C24_MetricLaws ==
    LevenshteinDone =>
        /\ ret[1] >= 0
        /\ call.s1 = call.s2 => ret[1] = 0
        /\ ret[1] = calculate_levenshtein_distance(call.s2, call.s1)
        /\ calculate_levenshtein_distance(call.s1, call.s3)
             <= ret[1] + calculate_levenshtein_distance(call.s2, call.s3)

\* C24 witness: three different strings of different lengths with the triangle
\* inequality strict.
C24_Witness ==
    /\ LevenshteinDone
    /\ Len(call.s1) > 0
    /\ Len(call.s1) < Len(call.s2)
    /\ Len(call.s3) > 0
    /\ call.s3 # call.s1
    /\ call.s3 # call.s2
    /\ ret[1] > 0
    /\ calculate_levenshtein_distance(call.s1, call.s3)
         < ret[1] + calculate_levenshtein_distance(call.s2, call.s3)

\* The score x lies in [0.0, 1.0].
InUnitInterval(x) == RatLeq(RatInt(0), x) /\ RatLeq(x, RatInt(1))

\* C25 as claimed: for all predicted and gold lists that normalize without
\* error, precision, recall and f1 each lie in [0.0, 1.0]; recall never exceeds
\* 1.0 when several predicted entities match the same gold entity.
C25_Original ==
    (ScoreDone /\ ~IsRaised(ret[1])) =>
        /\ InUnitInterval(ret[1].precision)
        /\ InUnitInterval(ret[1].recall)
        /\ InUnitInterval(ret[1].f1_score)

(***************************************************************************)
(* compare_chunks as a function of its arguments                           *)
(***************************************************************************)
\* The loop over the predicted chunks from preds on, as MatchChunk and
\* FinishChunks run it: False at the first chunk without a best match, and at
\* the end True when the pool is empty.
RECURSIVE MatchLoop(_, _, _, _)
MatchLoop(preds, pool, threshold, fuzzy) ==
    IF preds = <<>> THEN pool = <<>>
    ELSE \E best \in {ScanPool(Head(preds), pool, fuzzy, threshold, 1, 0, RatInt(0))} :
            /\ best.index # 0
            /\ MatchLoop(Tail(preds), ListRemove(pool, pool[best.index]), threshold, fuzzy)

\* The value compare_chunks returns.
compare_chunks(predicted_chunks, gold_chunks, threshold, fuzzy) ==
    /\ Len(predicted_chunks) = Len(gold_chunks)
    /\ MatchLoop(predicted_chunks, gold_chunks, threshold, fuzzy)

\* C26 as claimed: turning fuzzy title matching on never turns a passing
\* comparison into a failing one: if compare_chunks(predicted, gold,
\* use_fuzzy_matching=False) returns True, then compare_chunks(predicted, gold,
\* use_fuzzy_matching=True) returns True, for every iou_threshold.
C26_Original ==
    (ChunksDone /\ ~use_fuzzy_matching /\ ret = <<TRUE>>)
        => compare_chunks(predicted, gold_standard, iou_threshold, TRUE)

\* C27: pool invariant of compare_chunks: once the length check has passed,
\* after k predicted chunks have been processed without failure the pool holds
\* len(gold) - k chunks, each processed chunk having consumed exactly one of
\* them; so the pool is empty when the loop ends, and the check for unmatched
\* gold chunks after the loop is never the reason for a False result.
C27_PoolInvariant ==
    /\ (call.op = "compare_chunks" /\ pc = "match") =>
          /\ Len(predicted) = Len(gold_standard)
          /\ Len(unmatched_gold) = Len(gold_standard) - idx
          /\ Len(match_details) = idx
          /\ idx = Len(predicted) => unmatched_gold = <<>>
    /\ (ChunksDone /\ ret = <<FALSE>>) =>
          \/ Len(predicted) # Len(gold_standard)
          \/ failed_on # <<>>

\* C27 witness: the loop has ended after two predicted chunks each consumed one
\* of two equal gold chunks.
C27_Witness ==
    /\ call.op = "compare_chunks"
    /\ pc = "match"
    /\ idx = 2
    /\ Len(predicted) = 2
    /\ gold_standard[1] = gold_standard[2]
    /\ unmatched_gold = <<>>

\* Chunks i and j of the list share a page.
SharePage(i, j) ==
    /\ call.chunks[i].start_page <= call.chunks[j].end_page
    /\ call.chunks[j].start_page <= call.chunks[i].end_page

\* C28: if validate_chunk_continuity returns is_valid = True, then every chunk
\* has start_page <= end_page, no two chunks of the list share a page, whether
\* or not they are adjacent in sorted order, and no two chunks consecutive in
\* start_page order are more than 10 pages apart.
C28_ValidMeansDisjoint ==
    (ContinuityDone /\ ret[1].is_valid) =>
        /\ \A i \in 1..Len(call.chunks) :
               call.chunks[i].start_page <= call.chunks[i].end_page
        /\ \A i, j \in 1..Len(call.chunks) : i # j => ~SharePage(i, j)
        /\ \A i \in 2..Len(call.chunks) : GapBefore(i) <= 10

\* C28 witness: three chunks given out of order, the first and the last in
\* sorted order 11 pages apart, are valid.
C28_Witness ==
    /\ ContinuityDone
    /\ ret[1].is_valid
    /\ Len(call.chunks) = 3
    /\ call.chunks[1].start_page > call.chunks[3].start_page
    /\ InSortedOrder[3].start_page - InSortedOrder[1].end_page - 1 > 10

(***************************************************************************)
(* Specification of fuzzy_title_match and of compare_chunks on chunks with *)
(* empty and whitespace-only titles                                        *)
(***************************************************************************)
MaxBlankChunks == 2

BlankChunks ==
    {[title |-> t, start_page |-> r[1], end_page |-> r[2]] :
        t \in BlankTitles, r \in {<<1, 3>>, <<4, 6>>}}

InitBlank ==
    \/ InitTitle
    \/ /\ predicted \in SeqsUpTo(BlankChunks, MaxBlankChunks)
       /\ gold_standard \in SeqsUpTo(BlankChunks, MaxBlankChunks)
       /\ iou_threshold = DefaultIoUThreshold
       /\ use_fuzzy_matching \in BOOLEAN
       /\ ChunksCalled

NextBlank ==
    \/ NextTitle
    \/ NextChunks

SpecBlank == InitBlank /\ [][NextBlank]_vars

\* The title is empty or holds whitespace only.
IsBlank(title) == \A i \in 1..Len(title) : IsSpace(title[i])

\* C29: fuzzy_title_match returns True whenever either title is empty or
\* whitespace-only, whatever the other title and max_distance are; so in
\* compare_chunks with fuzzy matching on, a chunk with an empty title is
\* title-compatible with every chunk: a predicted chunk is left without a
\* match only if no pool chunk that it or whose title is blank reaches the
\* threshold with a positive IoU.
C29_BlankTitleMatchesAll ==
    /\ (TitleDone /\ (IsBlank(call.title1) \/ IsBlank(call.title2)))
          => ret = <<TRUE>>
    /\ (ChunksDone /\ use_fuzzy_matching /\ failed_on # <<>>) =>
          \A j \in 1..Len(unmatched_gold) :
              (IsBlank(failed_on[1].title) \/ IsBlank(unmatched_gold[j].title)) =>
                  ~(/\ IoUAtLeast(failed_on[1], unmatched_gold[j], iou_threshold)
                    /\ SharedPages(failed_on[1], unmatched_gold[j]) > 0)

\* C29 witness: with fuzzy matching on, a predicted chunk with an empty title
\* has taken a gold chunk titled 'Material Specifications'.
C29_Witness ==
    /\ call.op = "compare_chunks"
    /\ use_fuzzy_matching
    /\ Len(match_details) > 0
    /\ match_details[1].predicted = <<>>
    /\ match_details[1].matched = MaterialSpecifications

(***************************************************************************)
(* Specification of entities_match and score_entities together            *)
(***************************************************************************)
InitShared ==
    \/ InitMatch
    \/ InitScore

NextShared ==
    \/ NextMatch
    \/ NextScore

SpecShared == InitShared /\ [][NextShared]_vars

\* The two entities define none of type, material, diameter, schedule and
\* location_page in common.
NothingInCommon(entity1, entity2) ==
    \A f \in {"type", "material", "diameter", "schedule", "location_page"} :
        ~BothDefine(entity1, entity2, f)

\* The predicted entities that have nothing in common with some gold entity.
UnrelatedPredicted ==
    {i \in 1..Len(call.predicted) :
        \E j \in 1..Len(call.gold_standard) :
            NothingInCommon(call.predicted[i], call.gold_standard[j])}

\* C30: entities_match returns True for any two entities that define none of
\* type, material, diameter, schedule and location_page in common (an entity
\* with no fields matches every entity), so score_entities counts every such
\* predicted entity as a true positive as long as gold is non-empty.
C30_NothingInCommonMatches ==
    /\ (pc = "done" /\ call.op = "entities_match"
            /\ NothingInCommon(call.entity1, call.entity2))
          => ret = <<TRUE>>
    /\ ScoredNonEmpty =>
          ret[1].precision.num * Len(call.predicted)
              >= Cardinality(UnrelatedPredicted) * ret[1].precision.den

\* C30 witness: the entity with no fields is counted as a true positive against
\* a gold entity that defines fields, while the other predicted entity matches
\* no gold entity.
C30_Witness ==
    /\ ScoredNonEmpty
    /\ Len(call.predicted) = 2
    /\ call.predicted[1] = EmptyEntity
    /\ \A j \in 1..Len(call.gold_standard) : "type" \in DOMAIN call.gold_standard[j]
    /\ ret[1].precision = Rat(1, 2)

=============================================================================
